---- MODULE Spec2Model ----
(***************************************************************************)
(* Waitlist_Dev: the EFT fit parser (waitlist/fit_parser.py,               *)
(* parse_eft_fit) and the doctrine comparison engine                       *)
(* (check_fit_against_doctrines).                                          *)
(*                                                                         *)
(* A fit text is a sequence of lines (the result of str.splitlines); a     *)
(* line is a sequence of tokens.  A token is one character of the          *)
(* punctuation the parser looks at ("[", "]", ",", " ", the no-break       *)
(* space, "<", ">", "x", a digit) or a whole word.                         *)
(***************************************************************************)
EXTENDS Integers, Sequences, FiniteSets, TLC

\* ---------------------------------------------------------------------
\* Bounds of the model
\* ---------------------------------------------------------------------
MaxBody == 3

MaxQty == 2

MaxDoctrines == 2

MaxAttr == 2

\* requests served at the same time
MaxRequests == 3

\* rows of the ShipFit table
MaxFits == 2

\* None where the program holds an id: the type_id of a blank line or an
\* empty-slot marker, a null foreign key
NoneId == 0

\* ---------------------------------------------------------------------
\* Item Catalog (pilot.EveType rows)
\* ---------------------------------------------------------------------
EveType ==
  { [type_id |-> 1, name |-> <<"Rifter">>, slot_type |-> "none", subsystem_slots |-> 0, group_id |-> 25],
    [type_id |-> 2, name |-> <<"Tengu">>,  slot_type |-> "none", subsystem_slots |-> 4, group_id |-> 963],
    [type_id |-> 3, name |-> <<"Gun">>,    slot_type |-> "high", subsystem_slots |-> 0, group_id |-> 53],
    [type_id |-> 4, name |-> <<"Web">>,    slot_type |-> "mid",  subsystem_slots |-> 0, group_id |-> 65],
    [type_id |-> 5, name |-> <<"Plate">>,  slot_type |-> "low",  subsystem_slots |-> 0, group_id |-> 329],
    [type_id |-> 6, name |-> <<"Trimark">>, slot_type |-> "rig", subsystem_slots |-> 0, group_id |-> 773],
    [type_id |-> 7, name |-> <<"Core">>,   slot_type |-> "subsystem", subsystem_slots |-> 0, group_id |-> 954],
    [type_id |-> 8, name |-> <<"Drone">>,  slot_type |-> "drone", subsystem_slots |-> 0, group_id |-> 100],
    [type_id |-> 9, name |-> <<"Ammo">>,   slot_type |-> "none", subsystem_slots |-> 0, group_id |-> 83],
    [type_id |-> 10, name |-> <<"Gun", " ", "II">>, slot_type |-> "high", subsystem_slots |-> 0, group_id |-> 53],
    [type_id |-> 11, name |-> <<"Script">>, slot_type |-> "none", subsystem_slots |-> 0, group_id |-> NoneId] }

\* EveGroup.category_id of a group
GroupCategory(g) ==
  CASE g \in {25, 963} -> 6
    [] g = 83 -> 8
    [] g = 100 -> 18
    [] g = 954 -> 32
    [] OTHER -> 7

\* str.lower() on one token: only words have case
LowerTok(t) ==
  CASE t \in {"Rifter", "RIFTER"} -> "rifter"
    [] t \in {"Tengu"} -> "tengu"
    [] t \in {"Gun", "GUN"} -> "gun"
    [] t = "Web" -> "web"
    [] t = "Plate" -> "plate"
    [] t = "Trimark" -> "trimark"
    [] t = "Core" -> "core"
    [] t = "Drone" -> "drone"
    [] t = "Ammo" -> "ammo"
    [] t = "Junk" -> "junk"
    [] t = "Empty" -> "empty"
    [] t = "High" -> "high"
    [] t = "Med" -> "med"
    [] t = "Low" -> "low"
    [] t = "Rig" -> "rig"
    [] t = "Subsystem" -> "subsystem"
    [] t = "Slot" -> "slot"
    [] t = "Bay" -> "bay"
    [] t = "Fit" -> "fit"
    [] t = "Script" -> "script"
    [] t = "II" -> "ii"
    [] OTHER -> t

Lower(s) == [k \in 1..Len(s) |-> LowerTok(s[k])]

\* EveType.objects.get(name__iexact=...): the set of rows whose name
\* matches case-insensitively (empty = DoesNotExist)
FindByName(n) == { t \in EveType : Lower(t.name) = Lower(n) }

TypeById(id) == CHOOSE t \in EveType : t.type_id = id

\* ---------------------------------------------------------------------
\* String helpers
\* ---------------------------------------------------------------------
IsSpace(t) == t \in {" ", "nbsp"}

\* raw_fit_original.replace(u'\xa0', u' ') on one line
ReplaceNbsp(l) == [k \in 1..Len(l) |-> IF l[k] = "nbsp" THEN " " ELSE l[k]]

\* str.strip()
Strip(l) ==
  LET idx == { k \in 1..Len(l) : ~IsSpace(l[k]) }
  IN IF idx = {} THEN <<>>
     ELSE LET lo == CHOOSE k \in idx : \A j \in idx : k <= j
              hi == CHOOSE k \in idx : \A j \in idx : k >= j
          IN SubSeq(l, lo, hi)

IsDigit(t) == t \in {"0", "1", "2", "3"}

DigitVal(t) == CASE t = "0" -> 0 [] t = "1" -> 1 [] t = "2" -> 2 [] t = "3" -> 3

\* int() of a run of digits
RECURSIVE IntOf(_)
IntOf(ds) == IF ds = <<>> THEN 0
             ELSE 10 * IntOf(SubSeq(ds, 1, Len(ds) - 1)) + DigitVal(ds[Len(ds)])

\* re.match(r'^\[([^,]+),\s*(.*?)\]$', header_line): the position of the
\* comma that ends group 1, or 0 when the line does not match
HeaderComma(l) ==
  LET commas == { k \in 1..Len(l) : l[k] = "," }
  IN IF Len(l) >= 2 /\ l[1] = "[" /\ l[Len(l)] = "]" /\ commas # {}
     THEN LET c == CHOOSE k \in commas : \A j \in commas : k <= j
          IN IF c >= 3 THEN c ELSE 0
     ELSE 0

\* re.compile(r'<[^>]+>').sub('', s)
RECURSIVE TagStrip(_)
TagStrip(s) ==
  IF s = <<>> THEN <<>>
  ELSE IF s[1] = "<"
       THEN LET closes == { k \in 2..Len(s) : s[k] = ">" }
            IN IF closes # {} /\ (CHOOSE k \in closes : \A j \in closes : k <= j) >= 3
               THEN TagStrip(SubSeq(s, (CHOOSE k \in closes : \A j \in closes : k <= j) + 1, Len(s)))
               ELSE <<s[1]>> \o TagStrip(Tail(s))
       ELSE <<s[1]>> \o TagStrip(Tail(s))

\* item_regex = r'^(.*?)(?: x(\d+))?$' on a stripped line: the length of
\* the trailing digit run when the line ends in " x<digits>", else 0
QtySuffix(l) ==
  LET nondig == { k \in 1..Len(l) : ~IsDigit(l[k]) }
      last == IF nondig = {} THEN 0 ELSE CHOOSE k \in nondig : \A j \in nondig : k >= j
  IN IF last >= 2 /\ last < Len(l) /\ l[last] = "x" /\ l[last - 1] = " "
     THEN Len(l) - last ELSE 0

\* match.group(1).strip()
ItemName(l) == IF QtySuffix(l) > 0 THEN Strip(SubSeq(l, 1, Len(l) - QtySuffix(l) - 2)) ELSE Strip(l)

\* int(match.group(2)) if match.group(2) else 1
ItemQty(l) == IF QtySuffix(l) > 0 THEN IntOf(SubSeq(l, Len(l) - QtySuffix(l) + 1, Len(l))) ELSE 1

\* stripped_line.startswith('[') and stripped_line.endswith(']')
IsBracketed(l) == Len(l) >= 1 /\ l[1] = "[" /\ l[Len(l)] = "]"

\* 'kw' in slot_name, for the lower-cased line
Contains(l, kw) == \E k \in 1..Len(l) : LowerTok(l[k]) = kw

\* the if/elif chain that infers the slot type of an empty-slot marker
MarkerSlot(l) ==
  IF Contains(l, "high") THEN "high"
  ELSE IF Contains(l, "med") THEN "mid"
  ELSE IF Contains(l, "low") THEN "low"
  ELSE IF Contains(l, "rig") THEN "rig"
  ELSE IF Contains(l, "subsystem") THEN "subsystem"
  ELSE "none"

\* list.index
IndexOf(seq, x) == CHOOSE k \in 1..Len(seq) : seq[k] = x

InSeq(seq, x) == \E k \in 1..Len(seq) : seq[k] = x

\* a Counter that counts lines, not quantities
CounterAddOne(c, key, q) ==
  [k \in DOMAIN c \cup {key} |->
     (IF k \in DOMAIN c THEN c[k] ELSE 0) + (IF k = key THEN 1 ELSE 0)]

\* Counter: c[key] += q
CounterAdd(c, key, q) ==
  [k \in DOMAIN c \cup {key} |->
     (IF k \in DOMAIN c THEN c[k] ELSE 0) + (IF k = key THEN q ELSE 0)]

EmptyCounter == [k \in {} |-> 0]

\* ---------------------------------------------------------------------
\* Fit texts given to parse_eft_fit
\* ---------------------------------------------------------------------
HdrRifter == <<"[", "Rifter", ",", " ", "Fit", "]">>
HdrTengu == <<"[", "Tengu", ",", " ", "Fit", "]">>
HdrUpper == <<"[", "RIFTER", ",", "Fit", "]">>
HdrTagged == <<" ", "[", "<", "b", ">", "Rifter", " ", ",", " ", "Fit", "]">>
HdrEmptyName == <<"[", " ", ",", "Fit", "]">>
HdrTagOnly == <<"[", "<", "b", ">", ",", "Fit", "]">>
HdrNoComma == <<"[", "Rifter", "]">>
HdrCommaFirst == <<"[", ",", "Rifter", "]">>
HdrUnknown == <<"[", "Junk", ",", " ", "Fit", "]">>

LeadLines ==
  { <<>>, <<" ", "nbsp">>, HdrRifter, HdrTengu, HdrUpper, HdrTagged, HdrEmptyName,
    HdrTagOnly, HdrNoComma, HdrCommaFirst, HdrUnknown, <<"Rifter">>, <<"Gun">>, <<"Junk">> }

BodyLines ==
  { <<>>, <<"Gun">>, <<"GUN", " ", "x", "2">>, <<"Web">>, <<"Plate">>, <<"Trimark">>,
    <<"Core">>, <<" ", "Drone", " ", "x", "1", "0">>, <<"Ammo", " ", "x", "0">>, <<"Junk">>,
    <<"Rifter">>, HdrRifter,
    <<"[", "Empty", " ", "High", " ", "Slot", "]">>,
    <<"[", "Empty", " ", "Low", " ", "Slot", "]">>,
    <<"[", "Empty", " ", "Drone", " ", "Bay", "]">> }

SeqUpTo(S, n) == UNION { [1..k -> S] : k \in 0..n }

Texts ==
  SeqUpTo(LeadLines, 2)
    \cup { <<h>> \o b : h \in {HdrRifter, HdrTengu}, b \in SeqUpTo(BodyLines, MaxBody) }
    \cup { <<<<" ">>, h>> \o b : h \in {HdrUpper}, b \in SeqUpTo(BodyLines, 1) }

\* ---------------------------------------------------------------------
\* State
\* ---------------------------------------------------------------------
VARIABLES
  raw_fit,              \* the text given to parse_eft_fit, split into lines
  pc,                   \* position in parse_eft_fit
  first_line_index,     \* index of the header line (0 = not found)
  header_line,
  ship_type,            \* type_id of the hull, NoneId before it is resolved
  EFT_SECTION_ORDER,
  parsed_fit_list,
  fit_summary_counter,
  current_section_index,
  line_no,              \* position of the main loop in lines_raw
  result,               \* what the call gave back to its caller
  \* --- check_fit_against_doctrines ---
  ship_type_id,             \* argument: the hull of the submitted fit
  submitted_fit_summary,    \* argument: {type_id: quantity}
  DoctrineFit,              \* table: the doctrine fits, in query order
  ItemComparisonRule,       \* table: the comparison rules
  EveTypeDogmaAttribute,    \* table: attribute values of the types
  FitSubstitutionGroup,     \* table: manual substitution groups
  cpc,                      \* position in check_fit_against_doctrines
  matching_doctrines,
  specific_rules_by_group,
  global_rules_by_group,
  doctrine_no,              \* number of doctrines the loop has taken up
  submitted_items_snapshot,
  todo,                     \* required items of the doctrine not yet checked
  doctrine_type_id,         \* the required item being checked
  allowed_ids_for_slot,
  fit_matches_doctrine,
  check_result,             \* what the call gave back to its caller
  \* --- the fit views ---
  vpc,                      \* position of the view: "idle" until one is served
  slotted_fit,              \* what _build_slotted_fit_context returned
  full_fit_list,            \* the stored parsed lines api_get_fit_details reads
  fit_details,              \* what api_get_fit_details answered
  doctrine_items_to_fill_copy,  \* its count of the doctrine items still to fill
  \* --- the tables behind the waitlist and the requests in progress ---
  Fleet,                    \* is_active of every fleet
  FleetWaitlist,            \* the waitlist of every fleet: "absent", "closed" or "open"
  ShipFit,                  \* the fits, in the order they were created
  requests                  \* the position and the locals of every request

parserVars == <<raw_fit, pc, first_line_index, header_line, ship_type, EFT_SECTION_ORDER,
                parsed_fit_list, fit_summary_counter, current_section_index, line_no, result>>

checkVars == <<ship_type_id, submitted_fit_summary, DoctrineFit, ItemComparisonRule,
               EveTypeDogmaAttribute, FitSubstitutionGroup, cpc, matching_doctrines,
               specific_rules_by_group, global_rules_by_group, doctrine_no,
               submitted_items_snapshot, todo, doctrine_type_id, allowed_ids_for_slot,
               fit_matches_doctrine, check_result>>

viewVars == <<vpc, slotted_fit, full_fit_list, fit_details, doctrine_items_to_fill_copy>>

waitlistVars == <<Fleet, FleetWaitlist, ShipFit, requests>>

vars == <<parserVars, checkVars, viewVars, waitlistVars>>

NoResult == [kind |-> "none"]

ValueError(msg) == [kind |-> "ValueError", message |-> msg]

\* lines_raw = raw_fit_no_nbsp.splitlines()
lines_raw == [k \in 1..Len(raw_fit) |-> ReplaceNbsp(raw_fit[k])]

ParseInit ==
  /\ raw_fit \in Texts
  /\ pc = "header"
  /\ first_line_index = 0
  /\ header_line = <<>>
  /\ ship_type = NoneId
  /\ EFT_SECTION_ORDER = <<>>
  /\ parsed_fit_list = <<>>
  /\ fit_summary_counter = EmptyCounter
  /\ current_section_index = 0
  /\ line_no = 0
  /\ result = NoResult

\* the header looked for on the first line, blank or not
FirstNonBlankNoSkip(ls) ==
  LET nb == { k \in 1..Len(ls) : Strip(ls[k]) # <<>> }
  IN IF nb = {} THEN 0 ELSE 1

\* the first non-empty line (0 when every line is blank)
FirstNonBlank(ls) ==
  LET nb == { k \in 1..Len(ls) : Strip(ls[k]) # <<>> }
  IN IF nb = {} THEN 0 ELSE CHOOSE k \in nb : \A j \in nb : k <= j

\* the ship name of a header line that matched: tags stripped
ShipName(h) == Strip(TagStrip(Strip(SubSeq(h, 2, HeaderComma(h) - 1))))

\* steps 1-3 of parse_eft_fit: sanitize, find and parse the header, resolve the hull
HeaderOutcome(ls) ==
  IF ls = <<>> THEN ValueError("Fit is empty.")
  ELSE IF FirstNonBlank(ls) = 0 THEN ValueError("Fit contains only whitespace.")
  ELSE LET h == Strip(ls[FirstNonBlank(ls)])
       IN IF HeaderComma(h) = 0 THEN ValueError("Could not find valid header.")
          ELSE IF Strip(SubSeq(h, 2, HeaderComma(h) - 1)) = <<>>
               THEN ValueError("Ship name in header is empty.")
          ELSE IF FindByName(ShipName(h)) = {} THEN ValueError("Ship hull could not be found.")
          ELSE [kind |-> "ok"]

Raise(err) ==
  /\ pc' = "raised"
  /\ result' = err

ParseHeader ==
  /\ pc = "header"
  /\ LET out == HeaderOutcome(lines_raw)
     IN IF out.kind = "ValueError"
        THEN /\ Raise(out)
             /\ UNCHANGED <<first_line_index, header_line, ship_type>>
        ELSE /\ first_line_index' = FirstNonBlank(lines_raw)
             /\ header_line' = Strip(lines_raw[FirstNonBlank(lines_raw)])
             /\ ship_type' = (CHOOSE t \in FindByName(ShipName(Strip(lines_raw[FirstNonBlank(lines_raw)]))) : TRUE).type_id
             /\ pc' = "detect"
             /\ UNCHANGED result
  /\ UNCHANGED <<raw_fit, EFT_SECTION_ORDER, parsed_fit_list, fit_summary_counter,
                 current_section_index, line_no, checkVars, viewVars, waitlistVars>>

\* step 4: the first line after the header that is an item line (0 = none)
FirstItemLine(ls, hdr) ==
  LET cand == { k \in (hdr + 1)..Len(ls) :
                  /\ Strip(ls[k]) # <<>>
                  /\ ~IsBracketed(Strip(ls[k]))
                  /\ ItemName(Strip(ls[k])) # <<>> }
  IN IF cand = {} THEN 0 ELSE CHOOSE k \in cand : \A j \in cand : k <= j

LOW_FIRST == <<"low", "mid", "high", "rig", "subsystem", "drone">>

\* the traditional order with low before mid
HIGH_FIRST_SWAPPED == <<"high", "low", "mid", "rig", "subsystem", "drone">>

HIGH_FIRST == <<"high", "mid", "low", "rig", "subsystem", "drone">>

\* low-first also chosen for a first item of slot mid
DetectOrderMidLow ==
  /\ pc = "detect"
  /\ LET k == FirstItemLine(lines_raw, first_line_index)
         found == IF k = 0 THEN {} ELSE FindByName(ItemName(Strip(lines_raw[k])))
     IN IF k # 0 /\ found = {}
        THEN /\ Raise(ValueError("Unknown item in fit."))
             /\ UNCHANGED EFT_SECTION_ORDER
        ELSE /\ EFT_SECTION_ORDER' =
                  IF k # 0 /\ (CHOOSE t \in found : TRUE).slot_type \in {"low", "mid"}
                  THEN LOW_FIRST ELSE HIGH_FIRST
             /\ pc' = "hull"
             /\ UNCHANGED result
  /\ UNCHANGED <<raw_fit, first_line_index, header_line, ship_type, parsed_fit_list,
                 fit_summary_counter, current_section_index, line_no, checkVars, viewVars, waitlistVars>>

\* step 4: detect the block order from the first item line
DetectOrder ==
  /\ pc = "detect"
  /\ LET k == FirstItemLine(lines_raw, first_line_index)
         found == IF k = 0 THEN {} ELSE FindByName(ItemName(Strip(lines_raw[k])))
     IN IF k # 0 /\ found = {}
        THEN /\ Raise(ValueError("Unknown item in fit."))
             /\ UNCHANGED EFT_SECTION_ORDER
        ELSE /\ EFT_SECTION_ORDER' =
                  IF k # 0 /\ (CHOOSE t \in found : TRUE).slot_type = "low"
                  THEN LOW_FIRST ELSE HIGH_FIRST
             /\ pc' = "hull"
             /\ UNCHANGED result
  /\ UNCHANGED <<raw_fit, first_line_index, header_line, ship_type, parsed_fit_list,
                 fit_summary_counter, current_section_index, line_no, checkVars, viewVars, waitlistVars>>

ParsedLine(raw, tid, nm, q, slot) ==
  [raw_line |-> raw, type_id |-> tid, name |-> nm, quantity |-> q, final_slot |-> slot]

\* the hull counted but not put on the list
AddHullOmitted ==
  /\ pc = "hull"
  /\ parsed_fit_list' = <<>>
  /\ fit_summary_counter' = CounterAdd(EmptyCounter, ship_type, 1)
  /\ current_section_index' = 0
  /\ line_no' = first_line_index + 1
  /\ pc' = "loop"
  /\ UNCHANGED <<raw_fit, first_line_index, header_line, ship_type, EFT_SECTION_ORDER, result, checkVars, viewVars, waitlistVars>>

\* step 5, before the loop: the hull is the first parsed line
AddHull ==
  /\ pc = "hull"
  /\ parsed_fit_list' = <<ParsedLine(header_line, ship_type, TypeById(ship_type).name, 1, "ship")>>
  /\ fit_summary_counter' = CounterAdd(EmptyCounter, ship_type, 1)
  /\ current_section_index' = 0
  /\ line_no' = first_line_index + 1
  /\ pc' = "loop"
  /\ UNCHANGED <<raw_fit, first_line_index, header_line, ship_type, EFT_SECTION_ORDER, result, checkVars, viewVars, waitlistVars>>

is_t3c == TypeById(ship_type).subsystem_slots > 0

CurLine == Strip(lines_raw[line_no])

InLoop == pc = "loop" /\ line_no <= Len(raw_fit)

\* a blank line that leaves the cursor where it is
BlankLineNoAdvance ==
  /\ pc = "loop" /\ line_no <= Len(raw_fit)
  /\ Strip(lines_raw[line_no]) = <<>>
  /\ parsed_fit_list' = Append(parsed_fit_list, ParsedLine(<<>>, NoneId, <<"BLANK_LINE">>, 0, "BLANK_LINE"))
  /\ line_no' = line_no + 1
  /\ UNCHANGED <<raw_fit, pc, first_line_index, header_line, ship_type, EFT_SECTION_ORDER,
                 fit_summary_counter, current_section_index, result, checkVars, viewVars, waitlistVars>>

\* a blank line that moves the cursor on without looking at the bound
BlankLineAlwaysAdvance ==
  /\ pc = "loop" /\ line_no <= Len(raw_fit)
  /\ Strip(lines_raw[line_no]) = <<>>
  /\ current_section_index' = current_section_index + 1
  /\ parsed_fit_list' = Append(parsed_fit_list, ParsedLine(<<>>, NoneId, <<"BLANK_LINE">>, 0, "BLANK_LINE"))
  /\ line_no' = line_no + 1
  /\ UNCHANGED <<raw_fit, pc, first_line_index, header_line, ship_type, EFT_SECTION_ORDER,
                 fit_summary_counter, result, checkVars, viewVars, waitlistVars>>

BlankLine ==
  /\ InLoop
  /\ CurLine = <<>>
  /\ current_section_index' =
       IF current_section_index < Len(EFT_SECTION_ORDER)
       THEN current_section_index + 1 ELSE current_section_index
  /\ parsed_fit_list' = Append(parsed_fit_list, ParsedLine(<<>>, NoneId, <<"BLANK_LINE">>, 0, "BLANK_LINE"))
  /\ line_no' = line_no + 1
  /\ UNCHANGED <<raw_fit, pc, first_line_index, header_line, ship_type, EFT_SECTION_ORDER,
                 fit_summary_counter, result, checkVars, viewVars, waitlistVars>>

\* a marker of the current section is demoted as well
MarkerClassDemoteEqual(order, cursor, l) ==
  LET st == MarkerSlot(l)
  IN IF st # "none" /\ InSeq(order, st)
     THEN IF IndexOf(order, st) - 1 <= cursor
          THEN [final_slot |-> "cargo", cursor |-> cursor]
          ELSE [final_slot |-> st, cursor |-> IndexOf(order, st) - 1]
     ELSE [final_slot |-> "cargo", cursor |-> cursor]

\* final_slot and cursor for an empty-slot marker
MarkerClass(order, cursor, l) ==
  LET st == MarkerSlot(l)
  IN IF st # "none" /\ InSeq(order, st)
     THEN IF IndexOf(order, st) - 1 < cursor
          THEN [final_slot |-> "cargo", cursor |-> cursor]
          ELSE [final_slot |-> st, cursor |-> IndexOf(order, st) - 1]
     ELSE [final_slot |-> "cargo", cursor |-> cursor]

EmptySlotLine ==
  /\ InLoop
  /\ CurLine # <<>>
  /\ IsBracketed(CurLine)
  /\ LET c == MarkerClass(EFT_SECTION_ORDER, current_section_index, CurLine)
     IN /\ current_section_index' = c.cursor
        /\ parsed_fit_list' = Append(parsed_fit_list, ParsedLine(CurLine, NoneId, CurLine, 0, c.final_slot))
  /\ line_no' = line_no + 1
  /\ UNCHANGED <<raw_fit, pc, first_line_index, header_line, ship_type, EFT_SECTION_ORDER,
                 fit_summary_counter, result, checkVars, viewVars, waitlistVars>>

\* an item of an earlier section keeps its slot
ItemClassNoDemotion(order, cursor, t3c, st) ==
  IF st = "none" THEN [final_slot |-> "cargo", cursor |-> cursor]
  ELSE IF InSeq(order, st)
  THEN LET i == IndexOf(order, st) - 1
       IN IF i = cursor THEN [final_slot |-> st, cursor |-> cursor]
          ELSE IF t3c /\ st = "subsystem" /\ cursor < 5
               THEN [final_slot |-> "subsystem", cursor |-> cursor]
          ELSE IF i > cursor THEN [final_slot |-> st, cursor |-> i]
          ELSE [final_slot |-> st, cursor |-> cursor]
  ELSE [final_slot |-> "cargo", cursor |-> cursor]

\* a forward jump that leaves the cursor behind
ItemClassNoAdvance(order, cursor, t3c, st) ==
  IF st = "none" THEN [final_slot |-> "cargo", cursor |-> cursor]
  ELSE IF InSeq(order, st)
  THEN LET i == IndexOf(order, st) - 1
       IN IF i = cursor THEN [final_slot |-> st, cursor |-> cursor]
          ELSE IF t3c /\ st = "subsystem" /\ cursor < 5
               THEN [final_slot |-> "subsystem", cursor |-> cursor]
          ELSE IF i > cursor THEN [final_slot |-> st, cursor |-> cursor]
          ELSE [final_slot |-> "cargo", cursor |-> cursor]
  ELSE [final_slot |-> "cargo", cursor |-> cursor]

\* a subsystem on a subsystem-capable hull moves the cursor like any item
ItemClassT3Advance(order, cursor, t3c, st) ==
  IF st = "none" THEN [final_slot |-> "cargo", cursor |-> cursor]
  ELSE IF InSeq(order, st)
  THEN LET i == IndexOf(order, st) - 1
       IN IF i = cursor THEN [final_slot |-> st, cursor |-> cursor]
          ELSE IF t3c /\ st = "subsystem" /\ cursor < 5
               THEN [final_slot |-> "subsystem", cursor |-> IF i > cursor THEN i ELSE cursor]
          ELSE IF i > cursor THEN [final_slot |-> st, cursor |-> i]
          ELSE [final_slot |-> "cargo", cursor |-> cursor]
  ELSE [final_slot |-> "cargo", cursor |-> cursor]

\* final_slot and cursor for a resolved item
ItemClass(order, cursor, t3c, st) ==
  IF st = "none" THEN [final_slot |-> "cargo", cursor |-> cursor]
  ELSE IF InSeq(order, st)
  THEN LET i == IndexOf(order, st) - 1
       IN IF i = cursor THEN [final_slot |-> st, cursor |-> cursor]
          ELSE IF t3c /\ st = "subsystem" /\ cursor < 5
               THEN [final_slot |-> "subsystem", cursor |-> cursor]
          ELSE IF i > cursor THEN [final_slot |-> st, cursor |-> i]
          ELSE [final_slot |-> "cargo", cursor |-> cursor]
  ELSE [final_slot |-> "cargo", cursor |-> cursor]

\* an item line that skips an unknown item
ItemLineSkipUnknown ==
  /\ InLoop
  /\ CurLine # <<>>
  /\ ~IsBracketed(CurLine)
  /\ IF ItemName(CurLine) = <<>>
     THEN /\ line_no' = line_no + 1
          /\ UNCHANGED <<pc, parsed_fit_list, fit_summary_counter, current_section_index, result>>
     ELSE IF FindByName(ItemName(CurLine)) = {}
     THEN /\ line_no' = line_no + 1
          /\ UNCHANGED <<pc, parsed_fit_list, fit_summary_counter, current_section_index, result>>
     ELSE LET item_type == CHOOSE t \in FindByName(ItemName(CurLine)) : TRUE
              c == ItemClass(EFT_SECTION_ORDER, current_section_index, is_t3c, item_type.slot_type)
          IN /\ current_section_index' = c.cursor
             /\ parsed_fit_list' = Append(parsed_fit_list,
                   ParsedLine(CurLine, item_type.type_id, item_type.name, ItemQty(CurLine), c.final_slot))
             /\ fit_summary_counter' = CounterAdd(fit_summary_counter, item_type.type_id, ItemQty(CurLine))
             /\ line_no' = line_no + 1
             /\ UNCHANGED <<pc, result>>
  /\ UNCHANGED <<raw_fit, first_line_index, header_line, ship_type, EFT_SECTION_ORDER, checkVars, viewVars, waitlistVars>>

\* an item line that counts only fitted items
ItemLineCargoUncounted ==
  /\ InLoop
  /\ CurLine # <<>>
  /\ ~IsBracketed(CurLine)
  /\ IF ItemName(CurLine) = <<>>
     THEN /\ line_no' = line_no + 1
          /\ UNCHANGED <<pc, parsed_fit_list, fit_summary_counter, current_section_index, result>>
     ELSE IF FindByName(ItemName(CurLine)) = {}
     THEN /\ Raise(ValueError("Unknown item in fit."))
          /\ UNCHANGED <<parsed_fit_list, fit_summary_counter, current_section_index, line_no>>
     ELSE LET item_type == CHOOSE t \in FindByName(ItemName(CurLine)) : TRUE
              c == ItemClass(EFT_SECTION_ORDER, current_section_index, is_t3c, item_type.slot_type)
          IN /\ current_section_index' = c.cursor
             /\ parsed_fit_list' = Append(parsed_fit_list,
                   ParsedLine(CurLine, item_type.type_id, item_type.name, ItemQty(CurLine), c.final_slot))
             /\ fit_summary_counter' =
                  IF c.final_slot = "cargo" THEN fit_summary_counter
                  ELSE CounterAdd(fit_summary_counter, item_type.type_id, ItemQty(CurLine))
             /\ line_no' = line_no + 1
             /\ UNCHANGED <<pc, result>>
  /\ UNCHANGED <<raw_fit, first_line_index, header_line, ship_type, EFT_SECTION_ORDER, checkVars, viewVars, waitlistVars>>

\* step 5, an item line: resolve, classify, count
ItemLine ==
  /\ InLoop
  /\ CurLine # <<>>
  /\ ~IsBracketed(CurLine)
  /\ IF ItemName(CurLine) = <<>>
     THEN /\ line_no' = line_no + 1
          /\ UNCHANGED <<pc, parsed_fit_list, fit_summary_counter, current_section_index, result>>
     ELSE IF FindByName(ItemName(CurLine)) = {}
     THEN /\ Raise(ValueError("Unknown item in fit."))
          /\ UNCHANGED <<parsed_fit_list, fit_summary_counter, current_section_index, line_no>>
     ELSE LET item_type == CHOOSE t \in FindByName(ItemName(CurLine)) : TRUE
              c == ItemClass(EFT_SECTION_ORDER, current_section_index, is_t3c, item_type.slot_type)
          IN /\ current_section_index' = c.cursor
             /\ parsed_fit_list' = Append(parsed_fit_list,
                   ParsedLine(CurLine, item_type.type_id, item_type.name, ItemQty(CurLine), c.final_slot))
             /\ fit_summary_counter' = CounterAdd(fit_summary_counter, item_type.type_id, ItemQty(CurLine))
             /\ line_no' = line_no + 1
             /\ UNCHANGED <<pc, result>>
  /\ UNCHANGED <<raw_fit, first_line_index, header_line, ship_type, EFT_SECTION_ORDER, checkVars, viewVars, waitlistVars>>

\* return ship_type, parsed_fit_list, fit_summary_counter
ParseReturn ==
  /\ pc = "loop"
  /\ line_no > Len(raw_fit)
  /\ pc' = "returned"
  /\ result' = [kind |-> "value", ship_type |-> ship_type, parsed_fit_list |-> parsed_fit_list,
                fit_summary_counter |-> fit_summary_counter]
  /\ UNCHANGED <<raw_fit, first_line_index, header_line, ship_type, EFT_SECTION_ORDER,
                 parsed_fit_list, fit_summary_counter, current_section_index, line_no, checkVars, viewVars, waitlistVars>>

\* ---------------------------------------------------------------------
\* check_fit_against_doctrines: tables and arguments
\* ---------------------------------------------------------------------
RIFTER == 1

TENGU == 2

GUN == 3

WEB == 4

GUN2 == 10

SCRIPT == 11

\* attribute ids of the comparison rules
ATTR_DAMAGE == 64

ATTR_CPU == 50

GROUP_GUN == 53

Doctrine(n, ship, cat, items) ==
  [name |-> n, ship_type_id |-> ship, category |-> cat, fit_items |-> items]

D_GUNS == Doctrine("Guns", RIFTER, "DPS", (RIFTER :> 1) @@ (GUN :> 1) @@ (GUN2 :> 1))

D_WEB == Doctrine("Web", RIFTER, "LOGI", (RIFTER :> 1) @@ (GUN :> 2) @@ (WEB :> 1))

D_BARE == Doctrine("Bare", RIFTER, "SNIPER", (GUN2 :> 1))

D_SCRIPT == Doctrine("Script", RIFTER, "MAR_DPS", (RIFTER :> 1) @@ (SCRIPT :> 1))

D_TENGU == Doctrine("Tengu", TENGU, "DPS", (TENGU :> 1) @@ (GUN :> 1))

RifterDoctrines == {D_GUNS, D_WEB, D_BARE, D_SCRIPT}

IsInjective(f) == \A a, b \in DOMAIN f : f[a] = f[b] => a = b

\* a table's rows in some query order, no row twice
Orderings(S, n) == { f \in SeqUpTo(S, n) : IsInjective(f) }

\* submitted summaries: a quantity for each type that is present
Summaries ==
  { (RIFTER :> h) @@ (GUN :> g) @@ (GUN2 :> g2) @@ (WEB :> w) :
      h \in 1..MaxQty, g \in 1..MaxQty, g2 \in 1..MaxQty, w \in 0..1 }

Restrict(f, S) == [k \in S |-> f[k]]

\* every summary with the hull and some of the other types above
AllSummaries ==
  { Restrict(f, S \cup {RIFTER}) : f \in Summaries, S \in SUBSET {GUN, GUN2, WEB} }

Rule(g, a, hib, ship) ==
  [group_id |-> g, attribute_id |-> a, higher_is_better |-> hib, ship_type_id |-> ship]

RuleRows ==
  { Rule(GROUP_GUN, ATTR_DAMAGE, TRUE, NoneId),
    Rule(GROUP_GUN, ATTR_CPU, FALSE, NoneId),
    Rule(GROUP_GUN, ATTR_CPU, FALSE, RIFTER) }

Dogma(t, a, v) == [type_id |-> t, attribute_id |-> a, value |-> v]

\* attribute rows: GUN has both attributes at 1, GUN2 has any damage or
\* no damage row, and any cpu
DogmaTables ==
  { {Dogma(GUN, ATTR_DAMAGE, 1), Dogma(GUN, ATTR_CPU, 1)}
      \cup { Dogma(GUN2, ATTR_DAMAGE, v) : v \in {dv} \ {0} }
      \cup { Dogma(GUN2, ATTR_CPU, cv) } :
    dv \in 0..MaxAttr, cv \in 1..MaxAttr }

SubstGroup(base, subs) == [base_item |-> base, substitutes |-> subs]

SubstRows == { SubstGroup(GUN, {GUN2, WEB}) }

IdleParser ==
  /\ raw_fit = <<>>
  /\ pc = "idle"
  /\ first_line_index = 0
  /\ header_line = <<>>
  /\ ship_type = NoneId
  /\ EFT_SECTION_ORDER = <<>>
  /\ parsed_fit_list = <<>>
  /\ fit_summary_counter = EmptyCounter
  /\ current_section_index = 0
  /\ line_no = 0
  /\ result = NoResult

CheckLoopInit ==
  /\ specific_rules_by_group = EmptyCounter
  /\ global_rules_by_group = EmptyCounter
  /\ doctrine_no = 0
  /\ submitted_items_snapshot = EmptyCounter
  /\ todo = {}
  /\ doctrine_type_id = NoneId
  /\ allowed_ids_for_slot = {}
  /\ fit_matches_doctrine = TRUE
  /\ check_result = NoResult

CheckLocalsInit ==
  /\ matching_doctrines = <<>>
  /\ CheckLoopInit

IdleCheck ==
  /\ ship_type_id = NoneId
  /\ submitted_fit_summary = EmptyCounter
  /\ DoctrineFit = <<>>
  /\ ItemComparisonRule = {}
  /\ EveTypeDogmaAttribute = {}
  /\ FitSubstitutionGroup = {}
  /\ cpc = "idle"
  /\ CheckLocalsInit

IdleView ==
  /\ vpc = "idle"
  /\ slotted_fit = NoResult
  /\ full_fit_list = <<>>
  /\ fit_details = NoResult
  /\ doctrine_items_to_fill_copy = EmptyCounter

\* the fleets of the model
FleetIds == {1, 2}

\* the character that submits fits
PilotId == 1

RequestIds == 1..MaxRequests

\* the locals of a request that has not arrived yet
NewRequest ==
  [pc |-> "new", action |-> "", open_waitlist |-> NoneId, fleet_id |-> NoneId,
   character |-> NoneId, new_status |-> "", response |-> 0]

\* no request has arrived, no fleet is active, no waitlist exists
IdleWaitlist ==
  /\ Fleet = [f \in FleetIds |-> FALSE]
  /\ FleetWaitlist = [f \in FleetIds |-> "absent"]
  /\ ShipFit = <<>>
  /\ requests = [r \in RequestIds |-> NewRequest]

\* ---------------------------------------------------------------------
\* check_fit_against_doctrines
\* ---------------------------------------------------------------------
NONE_CATEGORY == "NONE"

Pending == [kind |-> "value", doctrine |-> "None", status |-> "PENDING", category |-> NONE_CATEGORY]

Approved(d) == [kind |-> "value", doctrine |-> d.name, status |-> "APPROVED", category |-> d.category]

NameError(msg) == [kind |-> "NameError", message |-> msg]

\* DoctrineFit.objects.filter(ship_type__type_id=ship_type_id)
RECURSIVE FilterByShip(_, _)
FilterByShip(rows, ship) ==
  IF rows = <<>> THEN <<>>
  ELSE (IF Head(rows).ship_type_id = ship THEN <<Head(rows)>> ELSE <<>>)
         \o FilterByShip(Tail(rows), ship)

\* the call from its entry to the two early returns
CheckEntry ==
  /\ cpc = "entry"
  /\ IF ship_type_id = NoneId
     THEN /\ check_result' = Pending
          /\ cpc' = "done"
          /\ UNCHANGED matching_doctrines
     ELSE /\ matching_doctrines' = FilterByShip(DoctrineFit, ship_type_id)
          /\ IF FilterByShip(DoctrineFit, ship_type_id) = <<>>
             THEN /\ check_result' = Pending
                  /\ cpc' = "done"
             ELSE /\ cpc' = "load"
                  /\ UNCHANGED check_result
  /\ UNCHANGED <<ship_type_id, submitted_fit_summary, DoctrineFit, ItemComparisonRule,
                 EveTypeDogmaAttribute, FitSubstitutionGroup, specific_rules_by_group,
                 global_rules_by_group, doctrine_no, submitted_items_snapshot, todo,
                 doctrine_type_id, allowed_ids_for_slot, fit_matches_doctrine, parserVars, viewVars, waitlistVars>>

\* the types and attributes are loaded, then the rule query is built with
\* models.Q: the module binds no name "models" (it imports names from
\* .models and pilot.models only), so the call ends with a NameError
LoadRules ==
  /\ cpc = "load"
  /\ check_result' = NameError("name 'models' is not defined")
  /\ cpc' = "raised"
  /\ UNCHANGED <<ship_type_id, submitted_fit_summary, DoctrineFit, ItemComparisonRule,
                 EveTypeDogmaAttribute, FitSubstitutionGroup, matching_doctrines,
                 specific_rules_by_group, global_rules_by_group, doctrine_no,
                 submitted_items_snapshot, todo, doctrine_type_id, allowed_ids_for_slot,
                 fit_matches_doctrine, parserVars, viewVars, waitlistVars>>

\* { group_id: [rule, ...] } of a set of rules
Rulebook(rs) == [g \in { r.group_id : r \in rs } |-> { r \in rs : r.group_id = g }]

\* the two rulebooks are built from the rows of the rule query, and the
\* submitted summary is copied for the loop
BuildRulebooks ==
  /\ cpc = "rulebooks"
  /\ specific_rules_by_group' = Rulebook({ r \in ItemComparisonRule : r.ship_type_id = ship_type_id })
  /\ global_rules_by_group' = Rulebook({ r \in ItemComparisonRule : r.ship_type_id # ship_type_id })
  /\ cpc' = "doctrines"
  /\ UNCHANGED <<ship_type_id, submitted_fit_summary, DoctrineFit, ItemComparisonRule,
                 EveTypeDogmaAttribute, FitSubstitutionGroup, matching_doctrines, doctrine_no,
                 submitted_items_snapshot, todo, doctrine_type_id, allowed_ids_for_slot,
                 fit_matches_doctrine, check_result, parserVars, viewVars, waitlistVars>>

\* the next doctrine is checked with what the one before it left in the pool
NextDoctrineKeepPool ==
  /\ cpc = "doctrines"
  /\ doctrine_no < Len(matching_doctrines)
  /\ doctrine_no' = doctrine_no + 1
  /\ submitted_items_snapshot' =
       IF doctrine_no = 0 THEN submitted_fit_summary ELSE submitted_items_snapshot
  /\ todo' = DOMAIN matching_doctrines[doctrine_no + 1].fit_items
  /\ fit_matches_doctrine' = TRUE
  /\ cpc' = "items"
  /\ UNCHANGED <<ship_type_id, submitted_fit_summary, DoctrineFit, ItemComparisonRule,
                 EveTypeDogmaAttribute, FitSubstitutionGroup, matching_doctrines,
                 specific_rules_by_group, global_rules_by_group, doctrine_type_id,
                 allowed_ids_for_slot, check_result, parserVars, viewVars, waitlistVars>>

\* for doctrine in matching_doctrines: the loop takes up the next doctrine
NextDoctrine ==
  /\ cpc = "doctrines"
  /\ doctrine_no < Len(matching_doctrines)
  /\ doctrine_no' = doctrine_no + 1
  /\ submitted_items_snapshot' = submitted_fit_summary
  /\ todo' = DOMAIN matching_doctrines[doctrine_no + 1].fit_items
  /\ fit_matches_doctrine' = TRUE
  /\ cpc' = "items"
  /\ UNCHANGED <<ship_type_id, submitted_fit_summary, DoctrineFit, ItemComparisonRule,
                 EveTypeDogmaAttribute, FitSubstitutionGroup, matching_doctrines,
                 specific_rules_by_group, global_rules_by_group, doctrine_type_id,
                 allowed_ids_for_slot, check_result, parserVars, viewVars, waitlistVars>>

\* type_map.get(id) finds a row
InTypeMap(id) == \E t \in EveType : t.type_id = id

\* the type is known and has a group
HasGroup(id) == InTypeMap(id) /\ TypeById(id).group_id # NoneId

\* the rule override: ship-specific rules of the group, else its global rules
ComparisonRules(specific, global, g) ==
  IF g \in DOMAIN specific THEN specific[g]
  ELSE IF g \in DOMAIN global THEN global[g]
  ELSE {}

\* _get_attribute_value_from_item: the cached value, 0 when there is none
AttributeValue(rows, t, a) ==
  LET hit == { d \in rows : d.type_id = t /\ d.attribute_id = a }
  IN IF hit = {} THEN 0 ELSE (CHOOSE d \in hit : TRUE).value

\* RulePasses with ties failing
RulePassesStrict(rows, rule, submitted, doctrine) ==
  IF rule.higher_is_better
  THEN AttributeValue(rows, submitted, rule.attribute_id) > AttributeValue(rows, doctrine, rule.attribute_id)
  ELSE AttributeValue(rows, submitted, rule.attribute_id) < AttributeValue(rows, doctrine, rule.attribute_id)

\* one rule of the "equal or better" check
RulePasses(rows, rule, submitted, doctrine) ==
  IF rule.higher_is_better
  THEN ~(AttributeValue(rows, submitted, rule.attribute_id) < AttributeValue(rows, doctrine, rule.attribute_id))
  ELSE ~(AttributeValue(rows, submitted, rule.attribute_id) > AttributeValue(rows, doctrine, rule.attribute_id))

\* AutoSubs without the guard on an empty rule list
AutoSubsNoGuard(rules, rows, snapshot, d) ==
  { s \in DOMAIN snapshot :
      /\ s # d
      /\ HasGroup(s)
      /\ TypeById(s).group_id = TypeById(d).group_id
      /\ GroupCategory(TypeById(s).group_id) = GroupCategory(TypeById(d).group_id)
      /\ \A r \in rules : RulePasses(rows, r, s, d) }

\* the submitted items added to allowed_ids_for_slot by the rule check
AutoSubs(rules, rows, snapshot, d) ==
  IF rules # {}
  THEN { s \in DOMAIN snapshot :
           /\ s # d
           /\ HasGroup(s)
           /\ TypeById(s).group_id = TypeById(d).group_id
           /\ GroupCategory(TypeById(s).group_id) = GroupCategory(TypeById(d).group_id)
           /\ \A r \in rules : RulePasses(rows, r, s, d) }
  ELSE {}

\* AllowedIds with the manual substitutes of the substitution groups added
AllowedIdsManual(specific, global, rows, groups, snapshot, d) ==
  {d} \cup { s \in DOMAIN snapshot : \E g \in groups : g.base_item = d /\ s \in g.substitutes }
      \cup AutoSubs(ComparisonRules(specific, global, TypeById(d).group_id), rows, snapshot, d)

\* step 5a: the allowed ids of one required item; manual substitution groups
\* are not consulted
AllowedIds(specific, global, rows, groups, snapshot, d) ==
  {d} \cup AutoSubs(ComparisonRules(specific, global, TypeById(d).group_id), rows, snapshot, d)

CurDoctrine == matching_doctrines[doctrine_no]

\* one required item of the doctrine is taken up, in any order
BuildAllowed ==
  /\ cpc = "items"
  /\ todo # {}
  /\ \E d \in todo :
       /\ doctrine_type_id' = d
       /\ IF ~HasGroup(d)
          THEN /\ fit_matches_doctrine' = FALSE
               /\ cpc' = "doctrines"
               /\ UNCHANGED allowed_ids_for_slot
          ELSE /\ allowed_ids_for_slot' =
                    AllowedIds(specific_rules_by_group, global_rules_by_group, EveTypeDogmaAttribute,
                               FitSubstitutionGroup, submitted_items_snapshot, d)
               /\ cpc' = "consume"
               /\ UNCHANGED fit_matches_doctrine
  /\ UNCHANGED <<ship_type_id, submitted_fit_summary, DoctrineFit, ItemComparisonRule,
                 EveTypeDogmaAttribute, FitSubstitutionGroup, matching_doctrines,
                 specific_rules_by_group, global_rules_by_group, doctrine_no,
                 submitted_items_snapshot, todo, check_result, parserVars, viewVars, waitlistVars>>

Min(a, b) == IF a < b THEN a ELSE b

\* del snapshot[key]
Remove(f, key) == [k \in DOMAIN f \ {key} |-> f[k]]

\* step 5b: the allowed ids are visited in the given order; gives the
\* snapshot and the quantity found
RECURSIVE ConsumeFrom(_, _, _, _)
ConsumeFrom(order, snapshot, found, required) ==
  IF order = <<>> THEN [snapshot |-> snapshot, found |-> found]
  ELSE LET a == Head(order)
           use == IF a \in DOMAIN snapshot THEN Min(snapshot[a], required - found) ELSE 0
           snap == IF a \in DOMAIN snapshot
                   THEN IF snapshot[a] - use = 0 THEN Remove(snapshot, a)
                        ELSE [snapshot EXCEPT ![a] = snapshot[a] - use]
                   ELSE snapshot
       IN IF found + use = required THEN [snapshot |-> snap, found |-> found + use]
          ELSE ConsumeFrom(Tail(order), snap, found + use, required)

\* the orders in which a set can be iterated
IterationOrders(S) == { f \in [1..Cardinality(S) -> S] : IsInjective(f) }

\* steps 5b and 5c for the required item taken up
Consume ==
  /\ cpc = "consume"
  /\ \E order \in IterationOrders(allowed_ids_for_slot) :
       LET required == CurDoctrine.fit_items[doctrine_type_id]
           c == ConsumeFrom(order, submitted_items_snapshot, 0, required)
       IN /\ submitted_items_snapshot' = c.snapshot
          /\ IF c.found < required
             THEN /\ fit_matches_doctrine' = FALSE
                  /\ cpc' = "doctrines"
                  /\ UNCHANGED todo
             ELSE /\ todo' = todo \ {doctrine_type_id}
                  /\ cpc' = "items"
                  /\ UNCHANGED fit_matches_doctrine
  /\ UNCHANGED <<ship_type_id, submitted_fit_summary, DoctrineFit, ItemComparisonRule,
                 EveTypeDogmaAttribute, FitSubstitutionGroup, matching_doctrines,
                 specific_rules_by_group, global_rules_by_group, doctrine_no, doctrine_type_id,
                 allowed_ids_for_slot, check_result, parserVars, viewVars, waitlistVars>>

\* step 6: TRUE when the extra-items check sends the loop to the next doctrine
\* leftovers never looked at
HasLeftoversNever(snapshot, ship) == FALSE

\* step 6: something other than the hull is left in the pool
HasLeftovers(snapshot, ship) == DOMAIN Remove(snapshot, ship) # {}

\* step 6: the value of fit_matches_doctrine after the hull check
HullCheck(snapshot, items, ship, flag) ==
  IF ship \in DOMAIN snapshot /\ snapshot[ship] > (IF ship \in DOMAIN items THEN items[ship] ELSE 0)
  THEN FALSE ELSE flag

\* steps 6 and 7, once every required item was found
Leftovers ==
  /\ cpc = "items"
  /\ todo = {}
  /\ submitted_items_snapshot' = Remove(submitted_items_snapshot, ship_type_id)
  /\ IF HasLeftovers(submitted_items_snapshot, ship_type_id)
     THEN /\ fit_matches_doctrine' = FALSE
          /\ cpc' = "doctrines"
          /\ UNCHANGED check_result
     ELSE /\ fit_matches_doctrine' =
               HullCheck(submitted_items_snapshot, CurDoctrine.fit_items, ship_type_id, fit_matches_doctrine)
          /\ check_result' = Approved(CurDoctrine)
          /\ cpc' = "done"
  /\ UNCHANGED <<ship_type_id, submitted_fit_summary, DoctrineFit, ItemComparisonRule,
                 EveTypeDogmaAttribute, FitSubstitutionGroup, matching_doctrines,
                 specific_rules_by_group, global_rules_by_group, doctrine_no, todo,
                 doctrine_type_id, allowed_ids_for_slot, parserVars, viewVars, waitlistVars>>

\* no doctrine is left: the fit stays pending
NoMatch ==
  /\ cpc = "doctrines"
  /\ doctrine_no = Len(matching_doctrines)
  /\ check_result' = Pending
  /\ cpc' = "done"
  /\ UNCHANGED <<ship_type_id, submitted_fit_summary, DoctrineFit, ItemComparisonRule,
                 EveTypeDogmaAttribute, FitSubstitutionGroup, matching_doctrines,
                 specific_rules_by_group, global_rules_by_group, doctrine_no,
                 submitted_items_snapshot, todo, doctrine_type_id, allowed_ids_for_slot,
                 fit_matches_doctrine, parserVars, viewVars, waitlistVars>>

\* ---------------------------------------------------------------------
\* _build_slotted_fit_context
\* ---------------------------------------------------------------------

\* hi_slots, med_slots, low_slots and rig_slots of a type row (None on items)
SlotFields(t) ==
  IF t.type_id = 1 THEN [hi_slots |-> 1, med_slots |-> 2, low_slots |-> 0, rig_slots |-> 1]
  ELSE IF t.type_id = 2 THEN [hi_slots |-> 2, med_slots |-> 1, low_slots |-> 1, rig_slots |-> 1]
  ELSE [hi_slots |-> NoneId, med_slots |-> NoneId, low_slots |-> NoneId, rig_slots |-> NoneId]

\* step 1: the base slot counts of the hull, int(x or 0)
slot_counts(ship_eve_type) ==
  [high |-> SlotFields(ship_eve_type).hi_slots,
   mid |-> SlotFields(ship_eve_type).med_slots,
   low |-> SlotFields(ship_eve_type).low_slots,
   rig |-> SlotFields(ship_eve_type).rig_slots,
   subsystem |-> ship_eve_type.subsystem_slots]

FITTABLE == <<"high", "mid", "low", "rig", "subsystem">>

\* step 4: the keys of item_bins
BinKeys == {"high", "mid", "low", "rig", "subsystem", "drone", "cargo", "ship", "BLANK_LINE"}

EmptyBins == [k \in BinKeys |-> <<>>]

\* the bin a parsed line goes to: its final_slot, cargo when that is no bin
BinSlot(item) == IF item.final_slot \in BinKeys THEN item.final_slot ELSE "cargo"

\* item_obj of a parsed line, with the canonical name of a known type
ItemObj(item) ==
  [type_id |-> item.type_id,
   name |-> IF item.type_id # NoneId /\ InTypeMap(item.type_id)
            THEN TypeById(item.type_id).name ELSE item.name,
   quantity |-> item.quantity,
   raw_line |-> item.raw_line,
   is_empty |-> InSeq(FITTABLE, BinSlot(item)) /\ item.type_id = NoneId]

\* the loop over parsed_fit_list: blank lines are dropped, every other
\* line is appended to its bin
RECURSIVE FillBins(_, _)
FillBins(item_bins, list) ==
  IF list = <<>> THEN item_bins
  ELSE IF BinSlot(Head(list)) = "BLANK_LINE" THEN FillBins(item_bins, Tail(list))
  ELSE FillBins([item_bins EXCEPT ![BinSlot(Head(list))] = Append(@, ItemObj(Head(list)))],
                Tail(list))

\* slot_key.capitalize()
Capitalize(slot_key) ==
  CASE slot_key = "high" -> "High"
    [] slot_key = "mid" -> "Mid"
    [] slot_key = "low" -> "Low"
    [] slot_key = "rig" -> "Rig"
    [] slot_key = "subsystem" -> "Subsystem"

\* f"[Empty {slot_key.capitalize()} Slot]"
empty_slot_name(slot_key) == <<"[", "Empty", " ", Capitalize(slot_key), " ", "Slot", "]">>

\* the synthetic entry of an unfilled slot
Placeholder(slot_key) ==
  [name |-> empty_slot_name(slot_key), is_empty |-> TRUE,
   raw_line |-> empty_slot_name(slot_key), type_id |-> NoneId]

\* a bin that is never padded
PadNever(slot_list, total_slots, slot_key) == slot_list

\* while len(slot_list) < total_slots: slot_list.append(placeholder)
RECURSIVE Pad(_, _, _)
Pad(slot_list, total_slots, slot_key) ==
  IF Len(slot_list) < total_slots
  THEN Pad(Append(slot_list, Placeholder(slot_key)), total_slots, slot_key)
  ELSE slot_list

\* step 5: the final slotted structure
FinalSlots(item_bins, counts, t3c) ==
  [k \in {"high", "mid", "low", "rig", "subsystem", "drone", "cargo"} |->
     IF k \in {"drone", "cargo"} \/ t3c THEN item_bins[k]
     ELSE Pad(item_bins[k], counts[k], k)]

build_slotted_fit_context(ship_eve_type, list) ==
  LET counts == slot_counts(ship_eve_type)
      t3c == counts.subsystem > 0
      item_bins == FillBins(EmptyBins, list)
  IN [kind |-> "value",
      ship |-> ship_eve_type.type_id,
      slots |-> FinalSlots(item_bins, counts, t3c),
      slot_counts |-> IF t3c
                      THEN [counts EXCEPT !.high = Len(item_bins.high), !.mid = Len(item_bins.mid),
                                          !.low = Len(item_bins.low), !.rig = Len(item_bins.rig)]
                      ELSE counts,
      is_t3c |-> t3c]

\* api_get_doctrine_fit_details, steps 2 to 4: the lines parse_eft_fit gave
\* for the fit are handed to the builder with the hull's row
BuildSlottedContext ==
  /\ pc = "returned"
  /\ result.kind = "value"
  /\ vpc = "idle"
  /\ slotted_fit' = build_slotted_fit_context(TypeById(ship_type), parsed_fit_list)
  /\ vpc' = "built"
  /\ UNCHANGED <<parserVars, checkVars, full_fit_list, fit_details, doctrine_items_to_fill_copy,
                 waitlistVars>>

\* ---------------------------------------------------------------------
\* api_get_fit_details
\* ---------------------------------------------------------------------

\* the lines parse_eft_fit gives for body lines naming the types of ids, in
\* high-first section order; each body line is <<type_id, quantity>>
RECURSIVE LinesFrom(_, _)
LinesFrom(body, cursor) ==
  IF body = <<>> THEN <<>>
  ELSE LET t == TypeById(Head(body)[1])
           c == ItemClass(HIGH_FIRST, cursor, FALSE, t.slot_type)
           raw == IF Head(body)[2] = 1 THEN t.name
                  ELSE t.name \o <<" ", "x", ToString(Head(body)[2])>>
       IN <<ParsedLine(raw, t.type_id, t.name, Head(body)[2], c.final_slot)>>
            \o LinesFrom(Tail(body), c.cursor)

\* the summary parse_eft_fit counts along with a list of lines
RECURSIVE CountLines(_)
CountLines(list) ==
  IF list = <<>> THEN EmptyCounter
  ELSE LET it == list[Len(list)]
           rest == CountLines(SubSeq(list, 1, Len(list) - 1))
       IN IF it.type_id # NoneId THEN CounterAdd(rest, it.type_id, it.quantity) ELSE rest

\* the texts a Rifter fit is submitted as: at most MaxBody body lines, each
\* naming one of the types of the summaries, with a quantity suffix when
\* the quantity is not 1
BodyTexts == SeqUpTo({RIFTER, GUN, GUN2, WEB} \X (1..MaxQty), MaxBody)

\* the parsed lines of those texts, the hull line first
ParsedTexts ==
  { <<ParsedLine(TypeById(RIFTER).name, RIFTER, TypeById(RIFTER).name, 1, "ship")>>
      \o LinesFrom(body, 0) : body \in BodyTexts }

\* parsed_fit_json of a stored fit: the parsed lines of a text whose summary
\* is the one that was checked
StoredLists == [summary \in AllSummaries |-> { list \in ParsedTexts : CountLines(list) = summary }]

\* step 3: DoctrineFit.objects.filter(ship_type__type_id=...).first()
FirstDoctrine(rows, ship) ==
  IF FilterByShip(rows, ship) = <<>> THEN NoResult ELSE FilterByShip(rows, ship)[1]

\* Counter.get(key, 0)
Get(counter, key) == IF key \in DOMAIN counter THEN counter[key] ELSE 0

\* the doctrine item the inner loop stops at: the first key, in the order
\* of the doctrine's dict, of a type that has the group g; NoneId if none
RECURSIVE FirstOfGroup(_, _)
FirstOfGroup(keys, g) ==
  IF keys = <<>> THEN NoneId
  ELSE IF HasGroup(Head(keys)) /\ TypeById(Head(keys)).group_id = g THEN Head(keys)
  ELSE FirstOfGroup(Tail(keys), g)

\* FailureReasons that stops at the first failing rule
FailureReasonsFirst(rules, rows, submitted, doctrine) ==
  LET failing == { q \in rules : ~(IF q.higher_is_better
                                     THEN ~(AttributeValue(rows, submitted, q.attribute_id) < AttributeValue(rows, doctrine, q.attribute_id))
                                     ELSE ~(AttributeValue(rows, submitted, q.attribute_id) > AttributeValue(rows, doctrine, q.attribute_id))) }
  IN IF failing = {} THEN {}
     ELSE LET r == CHOOSE q \in failing : TRUE
          IN { [attribute_id |-> r.attribute_id,
                doctrine_value |-> AttributeValue(rows, doctrine, r.attribute_id),
                submitted_value |-> AttributeValue(rows, submitted, r.attribute_id)] }

\* the rules of a rule list that the submitted type fails against the
\* doctrine type, each with the two values compared
FailureReasons(rules, rows, submitted, doctrine) ==
  { [attribute_id |-> r.attribute_id,
     doctrine_value |-> AttributeValue(rows, doctrine, r.attribute_id),
     submitted_value |-> AttributeValue(rows, submitted, r.attribute_id)] :
    r \in { q \in rules : ~RulePasses(rows, q, submitted, doctrine) } }

\* what the comparison of one line gives
Outcome(status, to_fill, subs, reasons, matches) ==
  [status |-> status, to_fill |-> to_fill, substitutes_for |-> subs,
   failure_reasons |-> reasons, potential_matches |-> matches]

\* the doctrine items of the group of a type: the potential matches put on
\* a problem item that has none and no failure reason
GroupMatches(id, doctrine) ==
  IF doctrine = NoResult \/ ~HasGroup(id) THEN {}
  ELSE { m \in DOMAIN doctrine.fit_items :
           InTypeMap(m) /\ TypeById(m).group_id = TypeById(id).group_id }

\* the comparison of one submitted line: its status, what it is a
\* substitute for, why it failed, and the doctrine quantities left to fill
Compare(item, doctrine, keys, to_fill, specific, global, rows) ==
  LET id == item.type_id
      qty == item.quantity
      d == FirstOfGroup(keys, TypeById(id).group_id)
      rules == ComparisonRules(specific, global, TypeById(id).group_id)
      extra == Outcome("problem", to_fill, {}, {}, GroupMatches(id, doctrine))
  IN IF doctrine = NoResult
     THEN IF item.final_slot \notin {"drone", "cargo"} THEN extra
          ELSE Outcome("doctrine", to_fill, {}, {}, {})
     ELSE IF Get(to_fill, id) > 0
     THEN Outcome("doctrine", [to_fill EXCEPT ![id] = @ - qty], {}, {}, {})
     ELSE IF HasGroup(id)
     THEN IF d = NoneId \/ rules = {} THEN extra
          ELSE IF FailureReasons(rules, rows, id, d) = {}
          THEN IF Get(to_fill, d) > 0
               THEN Outcome("accepted_sub", [to_fill EXCEPT ![d] = @ - qty], {d}, {}, {})
               ELSE extra
          ELSE Outcome("problem", to_fill, {}, FailureReasons(rules, rows, id, d), {d})
     ELSE extra

\* the annotation fields of an entry that was not compared
NotCompared(status) ==
  [status |-> status, substitutes_for |-> {}, failure_reasons |-> {}, potential_matches |-> {}]

\* step 4e, the loop over the stored lines: the entries of the view in line
\* order, each with its bin, and the doctrine quantities left at the end
RECURSIVE Annotate(_, _, _, _, _, _, _)
Annotate(list, entries, doctrine, keys, to_fill, specific, global) ==
  IF list = <<>> THEN [entries |-> entries, to_fill |-> to_fill]
  ELSE LET item == Head(list)
           obj == ItemObj(item)
       IN IF item.final_slot \in {"ship", "BLANK_LINE"}
          THEN Annotate(Tail(list), entries, doctrine, keys, to_fill, specific, global)
          ELSE IF obj.is_empty \/ item.type_id = NoneId
          THEN Annotate(Tail(list),
                        Append(entries, [bin |-> BinSlot(item),
                                         obj |-> obj @@ NotCompared(IF obj.is_empty THEN "empty"
                                                                    ELSE "doctrine")]),
                        doctrine, keys, to_fill, specific, global)
          ELSE LET c == Compare(item, doctrine, keys, to_fill, specific, global,
                                EveTypeDogmaAttribute)
               IN Annotate(Tail(list),
                           Append(entries, [bin |-> BinSlot(item),
                                            obj |-> obj @@ [status |-> c.status,
                                                            substitutes_for |-> c.substitutes_for,
                                                            failure_reasons |-> c.failure_reasons,
                                                            potential_matches |-> c.potential_matches]]),
                           doctrine, keys, c.to_fill, specific, global)

\* the entries of one bin, in line order
RECURSIVE BinOf(_, _)
BinOf(entries, k) ==
  IF entries = <<>> THEN <<>>
  ELSE (IF Head(entries).bin = k THEN <<Head(entries).obj>> ELSE <<>>) \o BinOf(Tail(entries), k)

\* while len(slot_list) < total_slots: the padding entries carry status empty
RECURSIVE PadEmpty(_, _, _)
PadEmpty(slot_list, total_slots, slot_key) ==
  IF Len(slot_list) < total_slots
  THEN PadEmpty(Append(slot_list, Placeholder(slot_key) @@ [status |-> "empty"]),
                total_slots, slot_key)
  ELSE slot_list

\* step 5: the final slotted structure of the annotated view
DetailSlots(entries, counts, t3c) ==
  [k \in {"high", "mid", "low", "rig", "subsystem", "drone", "cargo"} |->
     IF k \in {"drone", "cargo"} \/ t3c THEN BinOf(entries, k)
     ELSE PadEmpty(BinOf(entries, k), counts[k], k)]

\* step 6: the doctrine items still to fill, the hull left out
MissingItems(to_fill, ship) == { m \in DOMAIN to_fill : to_fill[m] > 0 /\ m # ship }

\* the two rulebooks of the view, built as the engine builds them
ViewRules(ship, rules) ==
  [specific |-> Rulebook({ r \in rules : r.ship_type_id = ship }),
   global |-> Rulebook({ r \in rules : r.ship_type_id # ship })]

\* step 4d: the doctrine items to fill, none without a doctrine
ToFill(doctrine) == IF doctrine = NoResult THEN EmptyCounter ELSE doctrine.fit_items

\* step 7: the answer of the view for a hull, the annotated entries and the
\* counts left
fit_details_of(ship, a, doctrine) ==
  LET counts == slot_counts(TypeById(ship))
  IN [kind |-> "value",
      slots |-> DetailSlots(a.entries, counts, counts.subsystem > 0),
      missing_items |-> MissingItems(a.to_fill, ship),
      doctrine_name |-> IF doctrine = NoResult THEN "No Doctrine Found" ELSE doctrine.name]

\* the modal is opened on a fit after it was checked: the view reads the
\* stored lines of the fit and the first doctrine of its hull, whose items
\* are iterated in the order keys
ServeFitDetails ==
  /\ cpc = "done"
  /\ vpc = "idle"
  /\ \E list \in StoredLists[submitted_fit_summary] :
       LET doctrine == FirstDoctrine(DoctrineFit, ship_type_id)
           rb == ViewRules(ship_type_id, ItemComparisonRule)
       IN \E keys \in IterationOrders(DOMAIN ToFill(doctrine)) :
            LET a == Annotate(list, <<>>, doctrine, keys, ToFill(doctrine), rb.specific, rb.global)
            IN /\ full_fit_list' = list
               /\ doctrine_items_to_fill_copy' = a.to_fill
               /\ fit_details' = fit_details_of(ship_type_id, a, doctrine)
  /\ vpc' = "served"
  /\ UNCHANGED <<parserVars, checkVars, slotted_fit, waitlistVars>>

\* the whole call, from its entry, on any hull, summary and doctrine table
CheckInit ==
  /\ IdleParser
  /\ ship_type_id \in {NoneId, RIFTER, TENGU}
  /\ submitted_fit_summary \in AllSummaries
  /\ DoctrineFit \in Orderings(RifterDoctrines \cup {D_TENGU}, MaxDoctrines)
  /\ ItemComparisonRule = RuleRows
  /\ EveTypeDogmaAttribute = {}
  /\ FitSubstitutionGroup = {}
  /\ cpc = "entry"
  /\ CheckLocalsInit
  /\ IdleView
  /\ IdleWaitlist

CheckNext ==
  \/ CheckEntry
  \/ LoadRules

CheckSpec == CheckInit /\ [][CheckNext]_vars

\* the doctrine loop, from the rows of the rule query, for a Rifter fit
MatchInit ==
  /\ IdleParser
  /\ ship_type_id = RIFTER
  /\ submitted_fit_summary \in AllSummaries
  /\ DoctrineFit \in Orderings(RifterDoctrines, MaxDoctrines)
  /\ ItemComparisonRule \in SUBSET RuleRows
  /\ EveTypeDogmaAttribute \in DogmaTables
  /\ FitSubstitutionGroup = SubstRows
  /\ cpc = "rulebooks"
  /\ matching_doctrines = FilterByShip(DoctrineFit, ship_type_id)
  /\ CheckLoopInit
  /\ IdleView
  /\ IdleWaitlist

MatchNext ==
  \/ BuildRulebooks
  \/ NextDoctrine
  \/ BuildAllowed
  \/ Consume
  \/ Leftovers
  \/ NoMatch

MatchSpec == MatchInit /\ [][MatchNext]_vars

\* a Rifter fit is checked against the gun doctrines and then inspected in
\* the modal: the doctrine loop, followed by api_get_fit_details
ViewInit ==
  /\ IdleParser
  /\ ship_type_id = RIFTER
  /\ submitted_fit_summary \in AllSummaries
  /\ DoctrineFit \in Orderings({D_GUNS, D_WEB}, MaxDoctrines)
  /\ ItemComparisonRule \in SUBSET { r \in RuleRows : r.ship_type_id = NoneId }
  /\ EveTypeDogmaAttribute \in DogmaTables
  /\ FitSubstitutionGroup = SubstRows
  /\ cpc = "rulebooks"
  /\ matching_doctrines = FilterByShip(DoctrineFit, ship_type_id)
  /\ CheckLoopInit
  /\ IdleView
  /\ IdleWaitlist

ViewNext ==
  \/ BuildRulebooks
  \/ NextDoctrine
  \/ BuildAllowed
  \/ Consume
  \/ Leftovers
  \/ NoMatch
  \/ ServeFitDetails

ViewSpec == ViewInit /\ [][ViewNext]_vars

\* ---------------------------------------------------------------------
\* api_fc_manage_waitlist, api_submit_fit and api_update_fit_status
\* (fc_views.py 61-158, views.py 476-588): requests served at the same time.
\* No view opens a transaction, so every query and every save is a step of
\* its own; what a request has read stays in its locals.
\* ---------------------------------------------------------------------

\* FleetWaitlist.objects.filter(is_open=True).first(): the open waitlist
\* with the lowest key, None when there is none
FirstOpen(table) ==
  LET open == { f \in DOMAIN table : table[f] = "open" }
  IN IF open = {} THEN NoneId ELSE CHOOSE f \in open : \A g \in open : f <= g

\* a request answers and ends
Respond(r, code) == [requests[r] EXCEPT !.pc = "done", !.response = code]

\* api_fc_manage_waitlist, its entry: the action of the request and the
\* open waitlist it reads
ManageEntry(r) ==
  /\ requests[r].pc = "new"
  /\ \E action \in {"close", "open"}, fleet_id \in FleetIds \cup {NoneId} :
       /\ (action = "close" => fleet_id = NoneId)
       /\ requests' = [requests EXCEPT ![r] =
                         [@ EXCEPT !.pc = action, !.action = action, !.fleet_id = fleet_id,
                                   !.open_waitlist = FirstOpen(FleetWaitlist)]]
  /\ UNCHANGED <<parserVars, checkVars, viewVars, Fleet, FleetWaitlist, ShipFit>>

\* close without an open waitlist: 400
CloseRefused(r) ==
  /\ requests[r].pc = "close"
  /\ requests[r].open_waitlist = NoneId
  /\ requests' = [requests EXCEPT ![r] = Respond(r, 400)]
  /\ UNCHANGED <<parserVars, checkVars, viewVars, Fleet, FleetWaitlist, ShipFit>>

\* close: the fleet of the waitlist is deactivated and saved
CloseFleetSave(r) ==
  /\ requests[r].pc = "close"
  /\ requests[r].open_waitlist # NoneId
  /\ Fleet' = [Fleet EXCEPT ![requests[r].open_waitlist] = FALSE]
  /\ requests' = [requests EXCEPT ![r].pc = "close_waitlist"]
  /\ UNCHANGED <<parserVars, checkVars, viewVars, FleetWaitlist, ShipFit>>

\* close: the waitlist that was read is saved as closed
CloseWaitlistSave(r) ==
  /\ requests[r].pc = "close_waitlist"
  /\ FleetWaitlist' = [FleetWaitlist EXCEPT ![requests[r].open_waitlist] = "closed"]
  /\ requests' = [requests EXCEPT ![r].pc = "close_fits"]
  /\ UNCHANGED <<parserVars, checkVars, viewVars, Fleet, ShipFit>>

\* close: the wings of the fleet, a table kept out of the state, are
\* deleted; then one UPDATE denies the fits of that waitlist that are
\* PENDING now
CloseDenyPending(r) ==
  /\ requests[r].pc = "close_fits"
  /\ ShipFit' = [i \in DOMAIN ShipFit |->
                   IF ShipFit[i].waitlist = requests[r].open_waitlist /\ ShipFit[i].status = "PENDING"
                   THEN [ShipFit[i] EXCEPT !.status = "DENIED"]
                   ELSE ShipFit[i]]
  /\ requests' = [requests EXCEPT ![r] = Respond(r, 200)]
  /\ UNCHANGED <<parserVars, checkVars, viewVars, Fleet, FleetWaitlist>>

\* open while the request read an open waitlist, or without a fleet: 400
OpenRefused(r) ==
  /\ requests[r].pc = "open"
  /\ requests[r].open_waitlist # NoneId \/ requests[r].fleet_id = NoneId
  /\ requests' = [requests EXCEPT ![r] = Respond(r, 400)]
  /\ UNCHANGED <<parserVars, checkVars, viewVars, Fleet, FleetWaitlist, ShipFit>>

\* open: the commander's character is looked up, 403 when it is not the
\* user's; then Fleet.objects.get(id=fleet_id, is_active=False), 400 when
\* the fleet is active
OpenGetFleet(r) ==
  /\ requests[r].pc = "open"
  /\ requests[r].open_waitlist = NoneId
  /\ requests[r].fleet_id # NoneId
  /\ \E own \in BOOLEAN :
       requests' = [requests EXCEPT ![r] =
                      IF ~own THEN Respond(r, 403)
                      ELSE IF Fleet[requests[r].fleet_id] THEN Respond(r, 400)
                      ELSE [@ EXCEPT !.pc = "open_fleet"]]
  /\ UNCHANGED <<parserVars, checkVars, viewVars, Fleet, FleetWaitlist, ShipFit>>

\* open: the fleet is activated and saved
OpenFleetSave(r) ==
  /\ requests[r].pc = "open_fleet"
  /\ Fleet' = [Fleet EXCEPT ![requests[r].fleet_id] = TRUE]
  /\ requests' = [requests EXCEPT ![r].pc = "open_waitlist"]
  /\ UNCHANGED <<parserVars, checkVars, viewVars, FleetWaitlist, ShipFit>>

\* open: get_or_create of the fleet's waitlist, created closed
OpenGetOrCreate(r) ==
  /\ requests[r].pc = "open_waitlist"
  /\ FleetWaitlist' = [FleetWaitlist EXCEPT ![requests[r].fleet_id] =
                         IF @ = "absent" THEN "closed" ELSE @]
  /\ requests' = [requests EXCEPT ![r].pc = "open_save"]
  /\ UNCHANGED <<parserVars, checkVars, viewVars, Fleet, ShipFit>>

\* open: the waitlist is saved as open
OpenWaitlistSave(r) ==
  /\ requests[r].pc = "open_save"
  /\ FleetWaitlist' = [FleetWaitlist EXCEPT ![requests[r].fleet_id] = "open"]
  /\ requests' = [requests EXCEPT ![r] = Respond(r, 200)]
  /\ UNCHANGED <<parserVars, checkVars, viewVars, Fleet, ShipFit>>

\* api_submit_fit, its entry: the open waitlist it reads
SubmitEntry(r) ==
  /\ requests[r].pc = "new"
  /\ requests' = [requests EXCEPT ![r] =
                    [@ EXCEPT !.pc = "submit", !.action = "submit", !.character = PilotId,
                              !.open_waitlist = FirstOpen(FleetWaitlist)]]
  /\ UNCHANGED <<parserVars, checkVars, viewVars, Fleet, FleetWaitlist, ShipFit>>

\* submit without an open waitlist: 400
SubmitRefused(r) ==
  /\ requests[r].pc = "submit"
  /\ requests[r].open_waitlist = NoneId
  /\ requests' = [requests EXCEPT ![r] = Respond(r, 400)]
  /\ UNCHANGED <<parserVars, checkVars, viewVars, Fleet, FleetWaitlist, ShipFit>>

\* submit: the character is looked up and the fit is parsed and checked.
\* The character is not the user's (403), the text is empty or does not
\* parse (400), its hull has a doctrine and the check raises (500), or its
\* hull has no doctrine and the check answers PENDING
SubmitCheck(r) ==
  /\ requests[r].pc = "submit"
  /\ requests[r].open_waitlist # NoneId
  /\ \E outcome \in {"DoesNotExist", "ValueError", "NameError", "PENDING"} :
       requests' = [requests EXCEPT ![r] =
                      IF outcome = "DoesNotExist" THEN Respond(r, 403)
                      ELSE IF outcome = "ValueError" THEN Respond(r, 400)
                      ELSE IF outcome = "NameError" THEN Respond(r, 500)
                      ELSE [@ EXCEPT !.pc = "submit_save", !.new_status = outcome]]
  /\ UNCHANGED <<parserVars, checkVars, viewVars, Fleet, FleetWaitlist, ShipFit>>

\* the fits update_or_create looks up: those of the character on the
\* waitlist that was read, PENDING or APPROVED
Existing(r) ==
  { i \in DOMAIN ShipFit : /\ ShipFit[i].character = requests[r].character
                           /\ ShipFit[i].waitlist = requests[r].open_waitlist
                           /\ ShipFit[i].status \in {"PENDING", "APPROVED"} }

\* submit: update_or_create on the waitlist that was read. The one fit
\* found is updated, a fit is created when none is found, and more than
\* one raises (500)
SubmitSave(r) ==
  /\ requests[r].pc = "submit_save"
  /\ Existing(r) = {} => Len(ShipFit) < MaxFits
  /\ ShipFit' = IF Existing(r) = {}
                THEN Append(ShipFit, [character |-> requests[r].character,
                                      waitlist |-> requests[r].open_waitlist,
                                      status |-> requests[r].new_status])
                ELSE IF Cardinality(Existing(r)) = 1
                THEN [ShipFit EXCEPT ![CHOOSE i \in Existing(r) : TRUE].status = requests[r].new_status]
                ELSE ShipFit
  /\ requests' = [requests EXCEPT ![r] =
                    Respond(r, IF Cardinality(Existing(r)) > 1 THEN 500 ELSE 200)]
  /\ UNCHANGED <<parserVars, checkVars, viewVars, Fleet, FleetWaitlist>>

\* api_update_fit_status: a fleet commander approves or denies a fit. The
\* fit is read and saved with its new status; no other column the model
\* keeps is changed by anyone, so the read and the save are one step
UpdateFitStatus ==
  /\ \E i \in DOMAIN ShipFit, status \in {"APPROVED", "DENIED"} :
       /\ ShipFit[i].status # status
       /\ ShipFit' = [ShipFit EXCEPT ![i].status = status]
  /\ UNCHANGED <<parserVars, checkVars, viewVars, Fleet, FleetWaitlist, requests>>

WaitlistInit == IdleParser /\ IdleCheck /\ IdleView /\ IdleWaitlist

WaitlistNext ==
  \/ \E r \in RequestIds :
       \/ ManageEntry(r)
       \/ CloseRefused(r)
       \/ CloseFleetSave(r)
       \/ CloseWaitlistSave(r)
       \/ CloseDenyPending(r)
       \/ OpenRefused(r)
       \/ OpenGetFleet(r)
       \/ OpenFleetSave(r)
       \/ OpenGetOrCreate(r)
       \/ OpenWaitlistSave(r)
       \/ SubmitEntry(r)
       \/ SubmitRefused(r)
       \/ SubmitCheck(r)
       \/ SubmitSave(r)
  \/ UpdateFitStatus

WaitlistSpec == WaitlistInit /\ [][WaitlistNext]_vars

\* parse_eft_fit on any text
Init == ParseInit /\ IdleCheck /\ IdleView /\ IdleWaitlist

Next ==
  \/ ParseHeader
  \/ DetectOrder
  \/ AddHull
  \/ BlankLine
  \/ EmptySlotLine
  \/ ItemLine
  \/ ParseReturn
  \/ BuildSlottedContext

Spec == Init /\ [][Next]_vars

\* ---------------------------------------------------------------------
\* ShipFit.get_parsed_fit_summary
\* ---------------------------------------------------------------------

\* str(item['type_id'])
Str(id) == ToString(id)

\* the loop of get_parsed_fit_summary over the stored parsed list
RECURSIVE get_parsed_fit_summary(_)
get_parsed_fit_summary(parsed_list) ==
  IF parsed_list = <<>> THEN [k \in {} |-> 0]
  ELSE LET rest == get_parsed_fit_summary(SubSeq(parsed_list, 1, Len(parsed_list) - 1))
           item == parsed_list[Len(parsed_list)]
       IN IF item.type_id # NoneId
          THEN [k \in DOMAIN rest \cup {Str(item.type_id)} |->
                  (IF k \in DOMAIN rest THEN rest[k] ELSE 0)
                  + (IF k = Str(item.type_id) THEN item.quantity ELSE 0)]
          ELSE rest

\* ---------------------------------------------------------------------
\* Properties of parse_eft_fit
\* ---------------------------------------------------------------------

\* the position of the first line of the text that is not blank, 0 if none
HeaderIndex ==
  IF \A k \in 1..Len(raw_fit) : \A j \in 1..Len(raw_fit[k]) : IsSpace(raw_fit[k][j])
  THEN 0
  ELSE CHOOSE k \in 1..Len(raw_fit) :
         /\ \E j \in 1..Len(raw_fit[k]) : ~IsSpace(raw_fit[k][j])
         /\ \A i \in 1..(k - 1) : \A j \in 1..Len(raw_fit[i]) : IsSpace(raw_fit[i][j])

\* the text has no usable header: it is empty or blank, or its first
\* non-blank line is not "[Ship, Name]", or names no ship, or an unknown one
BadHeader ==
  \/ raw_fit = <<>>
  \/ HeaderIndex = 0
  \/ LET h == Strip(lines_raw[HeaderIndex])
     IN \/ HeaderComma(h) = 0
        \/ ShipName(h) = <<>>
        \/ FindByName(ShipName(h)) = {}

\* C7: a text without a usable header makes the parse raise a ValueError and
\* give no parsed line; leading blank lines before a usable header are skipped
\* and give no parsed line.
C7_HeaderErrors ==
  /\ BadHeader =>
       /\ pc \in {"header", "raised"}
       /\ pc = "raised" => result.kind = "ValueError"
       /\ parsed_fit_list = <<>>
  /\ ~BadHeader =>
       /\ pc = "raised" => result = ValueError("Unknown item in fit.")
       /\ pc \notin {"header", "raised"} => first_line_index = HeaderIndex
       /\ result.kind = "value" =>
            Len(result.parsed_fit_list) = 1 + Len(raw_fit) - HeaderIndex

\* a blank line, then a header naming an unknown hull: the parse has raised
C7_Witness ==
  /\ pc = "raised"
  /\ HeaderIndex = 2
  /\ result = ValueError("Ship hull could not be found.")

\* a line after the header that is an item line naming no catalog type
UnknownItem ==
  \E k \in (HeaderIndex + 1)..Len(raw_fit) :
    LET l == Strip(lines_raw[k])
    IN /\ l # <<>>
       /\ ~IsBracketed(l)
       /\ FindByName(ItemName(l)) = {}

\* C8: a text with an item line that names no catalog type never returns a
\* parse: it raises a ValueError and gives no partial list.
C8_UnknownItemFails ==
  UnknownItem =>
    /\ pc # "returned"
    /\ result.kind # "value"
    /\ pc = "raised" => DOMAIN result = {"kind", "message"} /\ result.kind = "ValueError"

\* the unknown item came after lines that were parsed
C8_Witness ==
  /\ pc = "raised"
  /\ UnknownItem
  /\ Len(parsed_fit_list) >= 3
  /\ result = ValueError("Unknown item in fit.")

\* C9: a returned parse has exactly one line of slot 'ship'; it is the
\* first line, has quantity 1 and the type of the hull named in the header.
C9_OneShipLine ==
  result.kind = "value" =>
    LET l == result.parsed_fit_list
    IN /\ Len(l) >= 1
       /\ l[1].final_slot = "ship"
       /\ l[1].quantity = 1
       /\ l[1].type_id = result.ship_type
       /\ Lower(TypeById(result.ship_type).name) = Lower(ShipName(Strip(lines_raw[HeaderIndex])))
       /\ \A k \in 2..Len(l) : l[k].final_slot # "ship"

\* the hull's name as an item line and the header repeated, both parsed
C9_Witness ==
  /\ pc = "returned"
  /\ \E k \in 2..Len(result.parsed_fit_list) :
       result.parsed_fit_list[k].type_id = result.ship_type
  /\ \E k \in 2..Len(result.parsed_fit_list) :
       result.parsed_fit_list[k].raw_line = header_line

\* the sum of the quantities of the lines of one type
RECURSIVE QuantityOf(_, _)
QuantityOf(l, id) ==
  IF l = <<>> THEN 0
  ELSE (IF l[1].type_id = id THEN l[1].quantity ELSE 0) + QuantityOf(Tail(l), id)

\* C10: in a returned parse the summary maps each type on the list to the
\* sum of the quantities of its lines, holds no other key, counts the hull
\* at least once, and is what the summary recomputed from the list holds.
C10_SummaryIsSum ==
  result.kind = "value" =>
    LET l == result.parsed_fit_list
        c == result.fit_summary_counter
    IN /\ DOMAIN c = { l[k].type_id : k \in 1..Len(l) } \ {NoneId}
       /\ \A id \in DOMAIN c : c[id] = QuantityOf(l, id)
       /\ c[result.ship_type] >= 1
       /\ DOMAIN get_parsed_fit_summary(l) = { Str(id) : id \in DOMAIN c }
       /\ \A id \in DOMAIN c : get_parsed_fit_summary(l)[Str(id)] = c[id]

\* one type on two lines with different quantities, next to a line without a type
C10_Witness ==
  /\ pc = "returned"
  /\ \E i, j \in 2..Len(result.parsed_fit_list) :
       /\ i # j
       /\ result.parsed_fit_list[i].type_id = result.parsed_fit_list[j].type_id
       /\ result.parsed_fit_list[i].type_id # NoneId
       /\ result.parsed_fit_list[i].quantity = 1
       /\ result.parsed_fit_list[j].quantity = 2
  /\ \E k \in 2..Len(result.parsed_fit_list) : result.parsed_fit_list[k].type_id = NoneId

\* the lines of the text after the header
BodyOf(text) == SubSeq(text, HeaderIndex + 1, Len(text))

\* the summary read off a text line by line: the hull once, then every
\* item line's quantity under the type its name resolves to
RECURSIVE TextSummary(_, _)
TextSummary(hull, ls) ==
  IF ls = <<>> THEN (hull :> 1)
  ELSE LET rest == TextSummary(hull, SubSeq(ls, 1, Len(ls) - 1))
           l == Strip(ReplaceNbsp(ls[Len(ls)]))
       IN IF l = <<>> \/ IsBracketed(l) \/ FindByName(ItemName(l)) = {}
          THEN rest
          ELSE LET id == (CHOOSE t \in FindByName(ItemName(l)) : TRUE).type_id
               IN [x \in DOMAIN rest \cup {id} |->
                     (IF x \in DOMAIN rest THEN rest[x] ELSE 0) + (IF x = id THEN ItemQty(l) ELSE 0)]

\* C11: the summary of a returned parse is the summary of every text with
\* the same header and the same lines in another order, so two texts that
\* differ only in the order of their slot blocks parse to the same summary.
C11_SummaryOrderFree ==
  result.kind = "value" =>
    \A p \in Permutations(1..Len(BodyOf(raw_fit))) :
      result.fit_summary_counter =
        TextSummary(result.ship_type, [k \in 1..Len(BodyOf(raw_fit)) |-> BodyOf(raw_fit)[p[k]]])

\* a low, a mid and a high item parsed in low-first order, each in its slot
C11_Witness ==
  /\ pc = "returned"
  /\ EFT_SECTION_ORDER[1] = "low"
  /\ Len(parsed_fit_list) = 4
  /\ parsed_fit_list[2].final_slot = "low"
  /\ parsed_fit_list[3].final_slot = "mid"
  /\ parsed_fit_list[4].final_slot = "high"

\* the loop is at an item line that resolves to a catalog type
AtItem ==
  /\ pc = "loop"
  /\ line_no <= Len(raw_fit)
  /\ Strip(lines_raw[line_no]) # <<>>
  /\ ~IsBracketed(Strip(lines_raw[line_no]))
  /\ FindByName(ItemName(Strip(lines_raw[line_no]))) # {}

\* the catalog type of the item line the loop is at
ItemAt == CHOOSE t \in FindByName(ItemName(Strip(lines_raw[line_no]))) : TRUE

\* the section index of a slot type in the detected order
SectionIndex(st) == (CHOOSE k \in 1..Len(EFT_SECTION_ORDER) : EFT_SECTION_ORDER[k] = st) - 1

SubsystemHull == TypeById(ship_type).subsystem_slots > 0

LastLine(l) == l[Len(l)]

CountOf(c, id) == IF id \in DOMAIN c THEN c[id] ELSE 0

\* C12: an item whose section index is below the cursor (a subsystem on a
\* subsystem-capable hull before the drone section excepted) is parsed as
\* cargo, leaves the cursor alone, and its quantity is added to the summary.
C12_CargoDemotion ==
  [][(/\ AtItem
      /\ ItemAt.slot_type # "none"
      /\ SectionIndex(ItemAt.slot_type) < current_section_index
      /\ ~(SubsystemHull /\ ItemAt.slot_type = "subsystem" /\ current_section_index < 5))
     => /\ Len(parsed_fit_list') = Len(parsed_fit_list) + 1
        /\ LastLine(parsed_fit_list').type_id = ItemAt.type_id
        /\ LastLine(parsed_fit_list').final_slot = "cargo"
        /\ current_section_index' = current_section_index
        /\ CountOf(fit_summary_counter', ItemAt.type_id) =
             CountOf(fit_summary_counter, ItemAt.type_id) + ItemQty(Strip(lines_raw[line_no]))]_vars

\* two guns on one line after a mid-slot item: cargo, and counted twice
C12_Witness ==
  /\ pc = "loop"
  /\ Len(parsed_fit_list) >= 3
  /\ LastLine(parsed_fit_list).type_id = GUN
  /\ LastLine(parsed_fit_list).quantity = 2
  /\ LastLine(parsed_fit_list).final_slot = "cargo"
  /\ parsed_fit_list[Len(parsed_fit_list) - 1].final_slot = "mid"
  /\ fit_summary_counter[GUN] = 2

\* C13, as claimed: in high-first order a low-slot item listed after
\* mid-slot items is parsed as cargo.
C13_LowAfterMidIsCargo ==
  [][(/\ AtItem
      /\ EFT_SECTION_ORDER[1] = "high"
      /\ ItemAt.slot_type = "low"
      /\ Len(parsed_fit_list) >= 2
      /\ LastLine(parsed_fit_list).final_slot = "mid")
     => LastLine(parsed_fit_list').final_slot = "cargo"]_vars

\* C13, amended: in high-first order, with the cursor on the mid section, a
\* low-slot item is parsed as low and moves the cursor to the low section;
\* it is a high-slot item that is parsed as cargo there.
C13_HighAfterMidIsCargo ==
  [][(/\ AtItem
      /\ EFT_SECTION_ORDER[1] = "high"
      /\ current_section_index = 1)
     => /\ ItemAt.slot_type = "low" =>
             /\ LastLine(parsed_fit_list').final_slot = "low"
             /\ current_section_index' = 2
        /\ ItemAt.slot_type = "high" =>
             /\ LastLine(parsed_fit_list').final_slot = "cargo"
             /\ current_section_index' = 1]_vars

\* a low-slot item right after a mid-slot item, in high-first order, in slot low
C13_Witness ==
  /\ pc = "loop"
  /\ EFT_SECTION_ORDER[1] = "high"
  /\ Len(parsed_fit_list) >= 3
  /\ parsed_fit_list[Len(parsed_fit_list) - 1].final_slot = "mid"
  /\ LastLine(parsed_fit_list).type_id # NoneId
  /\ TypeById(LastLine(parsed_fit_list).type_id).slot_type = "low"
  /\ LastLine(parsed_fit_list).final_slot = "low"
  /\ current_section_index = 2

\* the slot type of the first line after the header that is neither blank
\* nor bracketed ("absent" without such a line, "unknown" if it names no type)
FirstItemSlot ==
  LET item(k) == /\ Strip(lines_raw[k]) # <<>>
                 /\ ~IsBracketed(Strip(lines_raw[k]))
      firsts == { k \in (HeaderIndex + 1)..Len(raw_fit) :
                    item(k) /\ \A j \in (HeaderIndex + 1)..(k - 1) : ~item(j) }
  IN IF firsts = {} THEN "absent"
     ELSE LET found == FindByName(ItemName(Strip(lines_raw[CHOOSE k \in firsts : TRUE])))
          IN IF found = {} THEN "unknown" ELSE (CHOOSE t \in found : TRUE).slot_type

\* C18: once detected, the section order is low-mid-high-rig-subsystem-drone
\* exactly when the first item line resolves to a low-slot item, and
\* high-mid-low-rig-subsystem-drone otherwise; no line is classified before
\* the order is set, and the order is the same in every later state.
C18_OrderDetection ==
  /\ pc \in {"header", "detect"} => parsed_fit_list = <<>> /\ EFT_SECTION_ORDER = <<>>
  /\ (pc \in {"hull", "loop", "returned"} \/ parsed_fit_list # <<>>) =>
       /\ FirstItemSlot # "unknown"
       /\ EFT_SECTION_ORDER =
            IF FirstItemSlot = "low"
            THEN <<"low", "mid", "high", "rig", "subsystem", "drone">>
            ELSE <<"high", "mid", "low", "rig", "subsystem", "drone">>

\* low-first order detected behind a blank line and an empty-slot marker,
\* and kept to the end of the parse
C18_Witness ==
  /\ pc = "returned"
  /\ EFT_SECTION_ORDER[1] = "low"
  /\ Len(parsed_fit_list) = 4
  /\ parsed_fit_list[2].type_id = NoneId
  /\ parsed_fit_list[3].type_id = NoneId
  /\ parsed_fit_list[2].final_slot # parsed_fit_list[3].final_slot
  /\ TypeById(parsed_fit_list[4].type_id).slot_type = "low"

\* C19, as claimed: an item at the cursor's section keeps its slot and the
\* cursor; an item of a later section gets its slot and the cursor moves to
\* its section; an item without a slot type is cargo and keeps the cursor.
C19_ItemClassification ==
  [][AtItem =>
       /\ ItemAt.slot_type = "none" =>
            /\ LastLine(parsed_fit_list').final_slot = "cargo"
            /\ current_section_index' = current_section_index
       /\ (ItemAt.slot_type # "none" /\ SectionIndex(ItemAt.slot_type) = current_section_index) =>
            /\ LastLine(parsed_fit_list').final_slot = ItemAt.slot_type
            /\ current_section_index' = current_section_index
       /\ (ItemAt.slot_type # "none" /\ SectionIndex(ItemAt.slot_type) > current_section_index) =>
            /\ LastLine(parsed_fit_list').final_slot = ItemAt.slot_type
            /\ current_section_index' = SectionIndex(ItemAt.slot_type)]_vars

\* C19, amended: as claimed, except that a subsystem of a later section on
\* a subsystem-capable hull gets slot subsystem and leaves the cursor alone.
C19_ItemClassificationT3 ==
  [][AtItem =>
       /\ ItemAt.slot_type = "none" =>
            /\ LastLine(parsed_fit_list').final_slot = "cargo"
            /\ current_section_index' = current_section_index
       /\ (ItemAt.slot_type # "none" /\ SectionIndex(ItemAt.slot_type) = current_section_index) =>
            /\ LastLine(parsed_fit_list').final_slot = ItemAt.slot_type
            /\ current_section_index' = current_section_index
       /\ (ItemAt.slot_type # "none" /\ SectionIndex(ItemAt.slot_type) > current_section_index) =>
            /\ LastLine(parsed_fit_list').final_slot = ItemAt.slot_type
            /\ current_section_index' =
                 IF SubsystemHull /\ ItemAt.slot_type = "subsystem"
                 THEN current_section_index
                 ELSE SectionIndex(ItemAt.slot_type)]_vars

\* a rig parsed right after a high-slot item: slot rig, cursor on the rig section
C19_Witness ==
  /\ pc = "loop"
  /\ Len(parsed_fit_list) >= 3
  /\ parsed_fit_list[Len(parsed_fit_list) - 1].final_slot = "high"
  /\ LastLine(parsed_fit_list).final_slot = "rig"
  /\ current_section_index = 3

\* C20: on a subsystem-capable hull a subsystem met before the drone section
\* gets slot subsystem and, before the subsystem section, leaves the cursor
\* alone, so a rig right after it gets slot rig; on any other hull it moves
\* the cursor to the subsystem section and a rig right after it is cargo.
C20_SubsystemHull ==
  [][AtItem =>
       /\ (ItemAt.slot_type = "subsystem" /\ SubsystemHull /\ current_section_index < 5) =>
            /\ LastLine(parsed_fit_list').final_slot = "subsystem"
            /\ current_section_index < 4 => current_section_index' = current_section_index
       /\ (ItemAt.slot_type = "subsystem" /\ ~SubsystemHull /\ current_section_index < 4) =>
            /\ LastLine(parsed_fit_list').final_slot = "subsystem"
            /\ current_section_index' = 4
       /\ (/\ ItemAt.slot_type = "rig"
           /\ LastLine(parsed_fit_list).final_slot = "subsystem"
           /\ LastLine(parsed_fit_list).type_id # NoneId) =>
            LastLine(parsed_fit_list').final_slot =
              IF SubsystemHull /\ current_section_index <= 3 THEN "rig" ELSE "cargo"]_vars

\* on the subsystem-capable hull: a subsystem, then a rig in slot rig
C20_Witness ==
  /\ pc = "loop"
  /\ TypeById(ship_type).subsystem_slots > 0
  /\ Len(parsed_fit_list) = 3
  /\ parsed_fit_list[2].final_slot = "subsystem"
  /\ parsed_fit_list[2].type_id # NoneId
  /\ parsed_fit_list[3].final_slot = "rig"
  /\ parsed_fit_list[3].type_id # NoneId

\* the loop is at a bracketed line
AtMarker ==
  /\ pc = "loop"
  /\ line_no <= Len(raw_fit)
  /\ Strip(lines_raw[line_no]) # <<>>
  /\ IsBracketed(Strip(lines_raw[line_no]))

\* the slot keyword of the bracketed line the loop is at, "none" without one
MarkerAt == MarkerSlot(Strip(lines_raw[line_no]))

\* C21: an empty-slot marker whose slot type has a section index below the
\* cursor is parsed as cargo and leaves the cursor alone; any other marker
\* with a slot keyword gets that slot and sets the cursor to its index; a
\* bracketed line without a slot keyword is cargo; a marker has no type id
\* and quantity 0, never fails the parse and never changes the summary.
C21_EmptySlotMarker ==
  [][AtMarker
     => /\ pc' = "loop"
        /\ result' = result
        /\ fit_summary_counter' = fit_summary_counter
        /\ Len(parsed_fit_list') = Len(parsed_fit_list) + 1
        /\ LastLine(parsed_fit_list').type_id = NoneId
        /\ LastLine(parsed_fit_list').quantity = 0
        /\ IF MarkerAt = "none"
           THEN /\ LastLine(parsed_fit_list').final_slot = "cargo"
                /\ current_section_index' = current_section_index
           ELSE IF SectionIndex(MarkerAt) < current_section_index
           THEN /\ LastLine(parsed_fit_list').final_slot = "cargo"
                /\ current_section_index' = current_section_index
           ELSE /\ LastLine(parsed_fit_list').final_slot = MarkerAt
                /\ current_section_index' = SectionIndex(MarkerAt)]_vars

\* a low-slot marker that moved the cursor forward, followed by a high-slot
\* marker that was parsed as cargo
C21_Witness ==
  /\ pc = "loop"
  /\ Len(parsed_fit_list) >= 3
  /\ EFT_SECTION_ORDER[1] = "high"
  /\ parsed_fit_list[Len(parsed_fit_list) - 1].type_id = NoneId
  /\ parsed_fit_list[Len(parsed_fit_list) - 1].final_slot = "low"
  /\ MarkerSlot(LastLine(parsed_fit_list).raw_line) = "high"
  /\ LastLine(parsed_fit_list).final_slot = "cargo"
  /\ current_section_index = 2

\* the loop is at a blank line
AtBlank ==
  /\ pc = "loop"
  /\ line_no <= Len(raw_fit)
  /\ Strip(lines_raw[line_no]) = <<>>

\* the text has a blank line directly after its header
BlankAfterHeader ==
  /\ Len(parsed_fit_list) >= 2
  /\ parsed_fit_list[2].final_slot = "BLANK_LINE"

\* C22: every blank line after the header adds one parsed line with
\* final_slot BLANK_LINE, no type id and quantity 0, and moves the cursor on
\* by exactly one while it is below 6, leaving it alone at 6; so an item of
\* the first section that follows a blank line placed directly after the
\* header is parsed as cargo.
C22_BlankLine ==
  [][/\ AtBlank
        => /\ pc' = "loop"
           /\ Len(parsed_fit_list') = Len(parsed_fit_list) + 1
           /\ LastLine(parsed_fit_list').final_slot = "BLANK_LINE"
           /\ LastLine(parsed_fit_list').type_id = NoneId
           /\ LastLine(parsed_fit_list').quantity = 0
           /\ fit_summary_counter' = fit_summary_counter
           /\ current_section_index' =
                IF current_section_index < 6 THEN current_section_index + 1
                ELSE current_section_index
     /\ (AtItem /\ BlankAfterHeader /\ ItemAt.slot_type = EFT_SECTION_ORDER[1])
        => /\ Len(parsed_fit_list') = Len(parsed_fit_list) + 1
           /\ LastLine(parsed_fit_list').type_id = ItemAt.type_id
           /\ LastLine(parsed_fit_list').final_slot = "cargo"]_vars

\* a gun right after the blank line that follows the header, parsed as cargo
C22_Witness ==
  /\ pc = "loop"
  /\ Len(parsed_fit_list) = 3
  /\ BlankAfterHeader
  /\ EFT_SECTION_ORDER[1] = "high"
  /\ parsed_fit_list[3].type_id = GUN
  /\ parsed_fit_list[3].final_slot = "cargo"
  /\ current_section_index = 1

\* C25: the section cursor is forward-only: it is set to 0 before the first
\* body line, no step lowers it, it stays within 0..6, and once it is 6
\* every item line is parsed as cargo.
C25_ForwardCursor ==
  [][/\ pc = "hull" => current_section_index' = 0
     /\ pc = "loop" => current_section_index' >= current_section_index
     /\ current_section_index' \in 0..6
     /\ (AtItem /\ current_section_index = 6)
        => /\ Len(parsed_fit_list') = Len(parsed_fit_list) + 1
           /\ LastLine(parsed_fit_list').type_id = ItemAt.type_id
           /\ LastLine(parsed_fit_list').final_slot = "cargo"
           /\ current_section_index' = 6]_vars

\* a drone line parsed as cargo after a blank line took the cursor past the
\* drone section
C25_Witness ==
  /\ pc = "loop"
  /\ current_section_index = 6
  /\ Len(parsed_fit_list) = 4
  /\ parsed_fit_list[2].final_slot = "drone"
  /\ parsed_fit_list[3].final_slot = "BLANK_LINE"
  /\ parsed_fit_list[4].type_id = 8
  /\ parsed_fit_list[4].final_slot = "cargo"

\* ---------------------------------------------------------------------
\* Properties of _build_slotted_fit_context
\* ---------------------------------------------------------------------

\* the parsed lines whose final_slot is k, in the order of the list
LinesOf(list, k) == SelectSeq(list, LAMBDA it : it.final_slot = k)

\* a view entry that shows the parsed line it
ShowsLine(e, it) ==
  /\ "quantity" \in DOMAIN e
  /\ e.raw_line = it.raw_line
  /\ e.type_id = it.type_id
  /\ e.quantity = it.quantity

\* a view entry that no parsed line stands behind
Synthetic(e) == "quantity" \notin DOMAIN e /\ e.is_empty /\ e.type_id = NoneId

\* C15: in the slotted view of a hull without subsystem slots each of the
\* bins high, mid, low, rig and subsystem holds the parsed lines of that
\* slot, in order, followed by synthetic empty-slot entries up to the
\* larger of the number of those lines and the hull's slot count; on a
\* hull with subsystem slots each bin holds exactly the parsed lines; the
\* blank lines and the hull line are in no bin.
C15_SlottedView ==
  vpc = "built" =>
    LET hull == TypeById(ship_type)
    IN /\ \A k \in {"high", "mid", "low", "rig", "subsystem"} :
            LET fitted == LinesOf(parsed_fit_list, k)
                bin == slotted_fit.slots[k]
                total == slot_counts(hull)[k]
            IN /\ Len(bin) = IF hull.subsystem_slots = 0 /\ total > Len(fitted)
                             THEN total ELSE Len(fitted)
               /\ \A j \in 1..Len(bin) :
                    IF j <= Len(fitted) THEN ShowsLine(bin[j], fitted[j]) ELSE Synthetic(bin[j])
       /\ \A k \in DOMAIN slotted_fit.slots :
            \A j \in 1..Len(slotted_fit.slots[k]) :
              \A i \in 1..Len(parsed_fit_list) :
                parsed_fit_list[i].final_slot \in {"BLANK_LINE", "ship"}
                  => ~ShowsLine(slotted_fit.slots[k][j], parsed_fit_list[i])

\* a Rifter view whose mid bin shows a fitted module and then a synthetic
\* entry, built from lines that hold a blank line
C15_Witness ==
  /\ vpc = "built"
  /\ TypeById(ship_type).subsystem_slots = 0
  /\ Len(LinesOf(parsed_fit_list, "mid")) = 1
  /\ Len(slotted_fit.slots["mid"]) = 2
  /\ \E i \in 1..Len(parsed_fit_list) : parsed_fit_list[i].final_slot = "BLANK_LINE"


\* ---------------------------------------------------------------------
\* Properties of api_get_fit_details
\* ---------------------------------------------------------------------

\* the entries of the annotated view, over all its bins
ViewEntries ==
  UNION { { fit_details.slots[k][j] : j \in 1..Len(fit_details.slots[k]) } :
          k \in DOMAIN fit_details.slots }

ViewDoctrine == FirstDoctrine(DoctrineFit, ship_type_id)

\* the rules the view applies to a group
ViewGroupRules(g) ==
  LET rb == ViewRules(ship_type_id, ItemComparisonRule)
  IN ComparisonRules(rb.specific, rb.global, g)

\* a rule whose comparison of the submitted type s with the doctrine type d
\* fails: worse means lower where higher is better, higher where lower is
Fails(r, s, d) ==
  LET sv == AttributeValue(EveTypeDogmaAttribute, s, r.attribute_id)
      dv == AttributeValue(EveTypeDogmaAttribute, d, r.attribute_id)
  IN IF r.higher_is_better THEN sv < dv ELSE sv > dv

\* the entry of a failing rule
ReasonOf(r, s, d) ==
  [attribute_id |-> r.attribute_id,
   doctrine_value |-> AttributeValue(EveTypeDogmaAttribute, d, r.attribute_id),
   submitted_value |-> AttributeValue(EveTypeDogmaAttribute, s, r.attribute_id)]

\* the doctrine items of the group of a type
SameGroupItems(id) ==
  { d \in DOMAIN ViewDoctrine.fit_items :
      InTypeMap(d) /\ HasGroup(d) /\ TypeById(d).group_id = TypeById(id).group_id }

\* the entries of the view that were compared with the doctrine
ComparedEntries ==
  { e \in ViewEntries : ~e.is_empty /\ e.type_id # NoneId /\ HasGroup(e.type_id) }

\* the entries that took up quantity of the doctrine item d
Consumers(d) ==
  { e \in ViewEntries : \/ e.status = "doctrine" /\ e.type_id = d
                        \/ e.status = "accepted_sub" /\ e.substitutes_for = {d} }

MatchingSet == { matching_doctrines[k] : k \in 1..Len(matching_doctrines) }

OneExtraUnit(summary, items) ==
  \E x \in DOMAIN summary \ DOMAIN items :
    /\ summary[x] = 1
    /\ DOMAIN summary = DOMAIN items \cup {x}
    /\ \A k \in DOMAIN items : summary[k] = items[k]

ApplicableRules(g) ==
  LET own == { r \in ItemComparisonRule : r.group_id = g /\ r.ship_type_id = ship_type_id }
      any == { r \in ItemComparisonRule : r.group_id = g /\ r.ship_type_id = NoneId }
  IN IF own # {} THEN own ELSE any

SameGroup(a, b) ==
  /\ HasGroup(a)
  /\ HasGroup(b)
  /\ TypeById(a).group_id = TypeById(b).group_id

\* C3: a submitted item of the doctrine item's group with no applicable
\* comparison rule is never in the allowed ids of that doctrine item, whatever
\* its attribute values, and no unit of it is consumed for the requirement.
C3_NoRuleNoSubstitute ==
  [][cpc = "consume" =>
       \A s \in DOMAIN submitted_items_snapshot :
         (s # doctrine_type_id /\ SameGroup(s, doctrine_type_id)
            /\ ApplicableRules(TypeById(doctrine_type_id).group_id) = {})
         => /\ s \notin allowed_ids_for_slot
            /\ s \in DOMAIN submitted_items_snapshot'
            /\ submitted_items_snapshot'[s] = submitted_items_snapshot[s]]_vars

\* a better-armed GUN2 is in the pool while GUN is checked without any rule,
\* and is not allowed
C3_Witness ==
  /\ cpc = "consume"
  /\ doctrine_type_id = GUN
  /\ GUN2 \in DOMAIN submitted_items_snapshot
  /\ ItemComparisonRule = {}
  /\ AttributeValue(EveTypeDogmaAttribute, GUN2, ATTR_DAMAGE) > AttributeValue(EveTypeDogmaAttribute, GUN, ATTR_DAMAGE)
  /\ allowed_ids_for_slot = {GUN}

\* the value the comparison reads: the attribute row's value, 0 without a row
ValueOf(t, a) ==
  IF \E d \in EveTypeDogmaAttribute : d.type_id = t /\ d.attribute_id = a
  THEN (CHOOSE d \in EveTypeDogmaAttribute : d.type_id = t /\ d.attribute_id = a).value
  ELSE 0

ManualSubs(d, snapshot) ==
  { s \in DOMAIN snapshot : \E g \in FitSubstitutionGroup : g.base_item = d /\ s \in g.substitutes }

C6_NeverRaises ==
  /\ check_result.kind \in {"none", "value"}
  /\ cpc = "done" =>
       /\ (FilterByShip(DoctrineFit, ship_type_id) = <<>> => check_result = Pending)
       /\ (check_result.status = "APPROVED" <=> check_result.doctrine # "None")
       /\ (check_result.doctrine # "None" =>
             \E k \in 1..Len(DoctrineFit) :
               /\ DoctrineFit[k].name = check_result.doctrine
               /\ DoctrineFit[k].ship_type_id = ship_type_id)

\* the summary is the required items with item d replaced, unit for
\* unit, by item s
Replaced(summary, items, d, s) ==
  /\ d \in DOMAIN items
  /\ s \notin DOMAIN items
  /\ DOMAIN summary = (DOMAIN items \ {d}) \cup {s}
  /\ summary[s] = items[d]
  /\ \A k \in DOMAIN items \ {d} : summary[k] = items[k]

\* C14: with a ship-specific rule for the required item's group on the
\* submitted hull, only the ship-specific rules decide: a fit that is the
\* hull's one doctrine with a required item replaced by an item of its group
\* passing every ship-specific rule is approved against that doctrine.
C14_ShipRulesOverride ==
  (cpc \in {"done", "raised"} /\ Len(FilterByShip(DoctrineFit, ship_type_id)) = 1) =>
    LET D == FilterByShip(DoctrineFit, ship_type_id)[1]
        own(g) == { r \in ItemComparisonRule : r.group_id = g /\ r.ship_type_id = ship_type_id }
    IN \A d \in DOMAIN D.fit_items : \A s \in DOMAIN submitted_fit_summary :
         (/\ Replaced(submitted_fit_summary, D.fit_items, d, s)
          /\ SameGroup(s, d)
          /\ own(TypeById(d).group_id) # {}
          /\ \A r \in own(TypeById(d).group_id) :
               IF r.higher_is_better
               THEN ValueOf(s, r.attribute_id) >= ValueOf(d, r.attribute_id)
               ELSE ValueOf(s, r.attribute_id) <= ValueOf(d, r.attribute_id))
         => check_result = Approved(D)

\* the units of one item taken from the pool by a step
UnitsUsed(s) == CountOf(submitted_items_snapshot, s) - CountOf(submitted_items_snapshot', s)

RECURSIVE TotalUsed(_)
TotalUsed(S) ==
  IF S = {} THEN 0
  ELSE LET x == CHOOSE x \in S : TRUE IN UnitsUsed(x) + TotalUsed(S \ {x})

\* C17: a requirement is ticked off only by a step that takes exactly its
\* quantity from the pool, each unit of the exact item or of a same-group
\* item passing every applicable rule; units leave the pool when used; and
\* a doctrine is returned as APPROVED only with every requirement ticked off
\* and nothing but hull units left in the pool.
C17_ApprovalSound ==
  [][/\ (todo' # todo /\ cpc # "doctrines") =>
          /\ cpc = "consume"
          /\ todo' = todo \ {doctrine_type_id}
          /\ TotalUsed(DOMAIN submitted_items_snapshot) = CurDoctrine.fit_items[doctrine_type_id]
          /\ DOMAIN submitted_items_snapshot' \subseteq DOMAIN submitted_items_snapshot
          /\ \A s \in DOMAIN submitted_items_snapshot :
               /\ UnitsUsed(s) >= 0
               /\ UnitsUsed(s) > 0 =>
                    \/ s = doctrine_type_id
                    \/ /\ SameGroup(s, doctrine_type_id)
                       /\ ApplicableRules(TypeById(doctrine_type_id).group_id) # {}
                       /\ \A r \in ApplicableRules(TypeById(doctrine_type_id).group_id) :
                            IF r.higher_is_better
                            THEN ValueOf(s, r.attribute_id) >= ValueOf(doctrine_type_id, r.attribute_id)
                            ELSE ValueOf(s, r.attribute_id) <= ValueOf(doctrine_type_id, r.attribute_id)
     /\ (cpc = "items" /\ submitted_items_snapshot' # submitted_items_snapshot) =>
          DOMAIN submitted_items_snapshot \ DOMAIN submitted_items_snapshot' = {ship_type_id}
     /\ (check_result' # check_result /\ check_result'.status = "APPROVED") =>
          /\ cpc = "items"
          /\ todo = {}
          /\ check_result'.doctrine = CurDoctrine.name
          /\ DOMAIN submitted_items_snapshot \ {ship_type_id} = {}]_vars

\* a doctrine approved with a unit of an item it does not list used for a
\* requirement
C17_Witness ==
  /\ cpc = "done"
  /\ check_result.status = "APPROVED"
  /\ \E s \in DOMAIN submitted_fit_summary : s \notin DOMAIN CurDoctrine.fit_items
  /\ DOMAIN CurDoctrine.fit_items \ DOMAIN submitted_fit_summary # {}

\* C23: every doctrine is checked against a fresh copy of the whole
\* submitted summary, whatever the doctrines before it consumed, and the
\* summary the caller passed is never changed.
C23_FreshPool ==
  [][/\ submitted_fit_summary' = submitted_fit_summary
     /\ doctrine_no' # doctrine_no => submitted_items_snapshot' = submitted_fit_summary]_vars

\* the second doctrine of the hull approved with the whole summary, after a
\* first doctrine that requires items of the summary other than the hull
C23_Witness ==
  /\ cpc = "done"
  /\ check_result.status = "APPROVED"
  /\ doctrine_no = 2
  /\ CurDoctrine.fit_items = submitted_fit_summary
  /\ (DOMAIN matching_doctrines[1].fit_items \cap DOMAIN submitted_fit_summary) \ {ship_type_id} # {}

\* whether doctrine d approves the pool, for every order in which the
\* required items left in todo and the allowed ids of each may be visited
RECURSIVE Verdicts(_, _, _)
Verdicts(remaining, pool, d) ==
  IF remaining = {} THEN { DOMAIN pool \ {ship_type_id} = {} }
  ELSE UNION {
         IF ~HasGroup(t) THEN {FALSE}
         ELSE UNION {
                LET c == ConsumeFrom(order, pool, 0, d.fit_items[t])
                IN IF c.found < d.fit_items[t] THEN {FALSE}
                   ELSE Verdicts(remaining \ {t}, c.snapshot, d) :
                order \in IterationOrders(
                  AllowedIds(specific_rules_by_group, global_rules_by_group,
                             EveTypeDogmaAttribute, FitSubstitutionGroup, pool, t)) } :
         t \in remaining }

Quiescent == \A r \in RequestIds : requests[r].pc \in {"new", "done"}

\* C29: at most one waitlist is open at any time, whatever the interleaving
\* of the open and close requests of several fleet commanders.
C29_AtMostOneOpen ==
  Cardinality({ f \in FleetIds : FleetWaitlist[f] = "open" }) <= 1

\* C30: once every request has answered, no PENDING fit is attached to a
\* waitlist that is not open, whatever the interleaving of api_submit_fit
\* with the close action.
C30_NoPendingOnClosed ==
  Quiescent =>
    \A i \in DOMAIN ShipFit :
      ShipFit[i].status = "PENDING" => FleetWaitlist[ShipFit[i].waitlist] = "open"

====
